---- MODULE Spec2Model ----
(***************************************************************************)
(* Model of Beta/ow_swimrankings_integration.py: the World Aquatics pool   *)
(* result classifier (wa_guess_event_key, wa_is_lcm_50m,                   *)
(* wa_time_to_seconds, wa_extract_pool_rows), the best-time aggregation    *)
(* (wa_compute_pool_bests and the aggregation at the end of                *)
(* swimrankings_scrape_pool_bests) and the endpoint probing                *)
(* (fetch_wa_profile, fetch_wa_pool_best_attempt).                         *)
(*                                                                         *)
(* Conventions.                                                            *)
(*   - An Optional[T] value is a sequence of length <= 1: <<>> is None,    *)
(*     <<v>> is the value v.                                               *)
(*   - A Python str is a sequence of tokens; `needle in s` is decided by   *)
(*     the substrings each token contains (Sub), s.lower() by Lower.       *)
(*   - Elapsed times are integers in hundredths of a second.               *)
(*   - A date is a record [y, m, d] compared lexicographically.            *)
(***************************************************************************)
EXTENDS Integers, Sequences, FiniteSets, TLC

VARIABLES
    rows,       \* aggregator input: the list of candidate rows
    ow_date,    \* aggregator input: the reference (open-water race) date
    out,        \* aggregator output: event -> {pb?, sb?}
    aggPc,      \* "idle" | "ready" | "wa" | "sr"
    label,      \* wa_guess_event_key input
    ev_key,     \* wa_guess_event_key output (Optional event)
    evPc,       \* "idle" | "ready" | "done"
    course_d,   \* wa_is_lcm_50m input: the result dict's course fields
    lcm,        \* wa_is_lcm_50m output
    lcmPc,      \* "idle" | "ready" | "done"
    js,         \* wa_extract_pool_rows input: the JSON payload
    stack,      \* wa_extract_pool_rows: the pending calls of visit, next first
    scan_rows,  \* wa_extract_pool_rows: the list `rows`
    scanPc,     \* "idle" | "visit" | "done" | "raised"
    visited,    \* history: the paths of the dicts and lists visit was called on
    probe,      \* endpoint probing state (record), see InitProbe
    http,       \* http_get_json / http_get_text call state (record), see InitHttp
    SR_ID_CACHE,      \* _SR_ID_CACHE: (full_name, nat) -> Optional athlete id
    SB_YTD_CACHE,     \* _SB_YTD_CACHE: (athlete_id, year, iso date) -> bests
    SWIMRANKINGS_LIB, \* whether `from swimrankings import Athletes` succeeded
    net,              \* number of network requests issued so far
    call,             \* the last SwimRankings lookup (record), see InitCache
    run,              \* main(): position and locals (record), see InitMain
    main_rows,        \* main(): the list `rows` of output rows
    tasks,            \* history: one record per athlete whose rows were appended
    xlsx,             \* the rows written by df.to_excel, None while not written
    an                \* analyse_competition(): position and locals (record), see InitAn

aggVars   == <<rows, ow_date, out, aggPc>>
evVars    == <<label, ev_key, evPc>>
lcmVars   == <<course_d, lcm, lcmPc>>
scanVars  == <<js, stack, scan_rows, scanPc, visited>>
probeVars == <<probe>>
httpVars  == <<http>>
cacheVars == <<SR_ID_CACHE, SB_YTD_CACHE, SWIMRANKINGS_LIB, net, call>>
mainVars  == <<run, main_rows, tasks, xlsx>>
anVars    == <<an>>
vars      == <<aggVars, evVars, lcmVars, scanVars, probeVars, httpVars, cacheVars, mainVars, anVars>>

None == <<>>
Some(v) == <<v>>
IsNone(o) == o = <<>>
Val(o) == o[1]

(***************************************************************************)
(* Strings                                                                 *)
(***************************************************************************)

\* str.lower() on one token
LowerTok(t) ==
    CASE t = "Free"      -> "free"
      [] t = "Freestyle" -> "freestyle"
      [] t = "Fr"        -> "fr"
      [] t = "Back"      -> "back"
      [] t = "LCM"       -> "lcm"
      [] t = "SCM"       -> "scm"
      [] t = "Long"      -> "long"
      [] t = "Africa"    -> "africa"
      [] t = "John"      -> "john"
      [] t = "Men"       -> "men"
      [] t = "Women"     -> "women"
      [] t = "JOHN"      -> "john"
      [] t = "Ann"       -> "ann"
      [] OTHER           -> t

\* s.lower()
Lower(s) == [i \in 1..Len(s) |-> LowerTok(s[i])]

\* the needles (of those the program searches for) that occur inside one token
Sub(t) ==
    CASE t = "freestyle" -> {"freestyle", "free", "fr"}
      [] t = "free"      -> {"free", "fr"}
      [] t = "fr"        -> {"fr"}
      [] t = "africa"    -> {"fr"}
      [] t = "400"       -> {"400"}
      [] t = "400m"      -> {"400"}
      [] t = "800"       -> {"800"}
      [] t = "800m"      -> {"800"}
      [] t = "1500"      -> {"1500", "50"}
      [] t = "1500m"     -> {"1500", "50"}
      [] t = "50"        -> {"50"}
      [] t = "50m"       -> {"50"}
      [] t = "50-m"      -> {"50"}
      [] t = "25"        -> {"25"}
      [] t = "25m"       -> {"25", "25m"}
      [] t = "lcm"       -> {"lcm"}
      [] t = "scm"       -> {"scm"}
      [] t = "long"      -> {"long"}
      [] t = ":"         -> {":"}
      [] t = "10km"      -> {"10", "km"}
      [] t = "5km"       -> {"km"}
      [] OTHER           -> {}

\* needle in s
In(needle, s) == \E i \in 1..Len(s) : needle \in Sub(s[i])

(***************************************************************************)
(* Dates                                                                   *)
(***************************************************************************)

Date(y, m, d) == [y |-> y, m |-> m, d |-> d]

\* date.__le__
date_le(a, b) ==
    \/ a.y < b.y
    \/ a.y = b.y /\ a.m < b.m
    \/ a.y = b.y /\ a.m = b.m /\ a.d <= b.d

\* date.isoformat(): the text "YYYY-MM-DD", here the triple of its numbers
isoformat(a) == <<a.y, a.m, a.d>>

\* date.year
year(a) == a.y

(***************************************************************************)
(* Time parsing                                                            *)
(***************************************************************************)

\* float(tok) for one token, in hundredths; None when float() raises
FloatTok(t) ==
    CASE t = "3"      -> Some(300)
      [] t = "0"      -> Some(0)
      [] t = "45.00"  -> Some(4500)
      [] t = "50.00"  -> Some(5000)
      [] t = "00.00"  -> Some(0)
      [] t = "230.00" -> Some(23000)
      [] t = "-5"     -> Some(-500)
      [] OTHER        -> None

RECURSIVE LStrip(_)
LStrip(s) == IF s # <<>> /\ Head(s) = " " THEN LStrip(Tail(s)) ELSE s

RECURSIVE RStrip(_)
RStrip(s) ==
    IF s # <<>> /\ s[Len(s)] = " " THEN RStrip(SubSeq(s, 1, Len(s) - 1)) ELSE s

\* str.strip()
Strip(s) == RStrip(LStrip(s))

\* float(s): surrounding whitespace is ignored, the rest must be one number
Float(s) ==
    LET u == Strip(s) IN IF Len(u) = 1 THEN FloatTok(u[1]) ELSE None

\* index of the first ":" of s (s contains one)
FirstColon(s) == CHOOSE i \in 1..Len(s) : s[i] = ":" /\ \A j \in 1..(i - 1) : s[j] # ":"

\* the body shared by wa_time_to_seconds and sr_time_to_seconds once the
\* string is stripped: "mm:rest" -> float(mm) * 60 + float(rest), else float(t)
ParseClock(t) ==
    IF In(":", t)
    THEN LET i    == FirstColon(t)
             mm   == Float(SubSeq(t, 1, i - 1))
             rest == Float(SubSeq(t, i + 1, Len(t)))
         IN  IF IsNone(mm) \/ IsNone(rest) THEN None
             ELSE Some(Val(mm) * 60 + Val(rest))
    ELSE Float(t)

wa_time_to_seconds(t) ==
    IF t = <<>> THEN None
    ELSE LET u == Strip(t)
         IN  IF u = <<>> \/ u \in {<<"-">>, <<"--">>} THEN None
             ELSE ParseClock(u)

sr_time_to_seconds(t) ==
    IF t = <<>> THEN None ELSE ParseClock(Strip(t))

(***************************************************************************)
(* Best-time aggregation                                                   *)
(***************************************************************************)

POOL_EVENTS == <<"400 Free", "800 Free", "1500 Free">>

PoolEventSet == {POOL_EVENTS[i] : i \in 1..Len(POOL_EVENTS)}

\* slip: a scan that replaces the best on `<=` keeps the last minimal element
MinBySeconds_LastMin(s) ==
    s[CHOOSE i \in 1..Len(s) :
        /\ \A j \in 1..Len(s) : Val(s[i].seconds) <= Val(s[j].seconds)
        /\ \A j \in (i + 1)..Len(s) : Val(s[j].seconds) > Val(s[i].seconds)]

\* slip: the first qualifying row is taken, the minimum is not searched
MinBySeconds_NoMin(s) == s[1]

\* min(seq, key = seconds): Python's min returns the first minimal element
MinBySeconds(s) ==
    s[CHOOSE i \in 1..Len(s) :
        /\ \A j \in 1..Len(s) : Val(s[i].seconds) <= Val(s[j].seconds)
        /\ \A j \in 1..(i - 1) : Val(s[j].seconds) > Val(s[i].seconds)]

\* the four output keys written for one best row
BestRecord(r) ==
    [time |-> r.time, date |-> isoformat(r.date), meet |-> r.meet,
     location |-> r.location]

\* slip: the `<= ow_date` condition is left out
InEvRows_NoDate(r, ev, od) ==
    r.event = ev /\ ~IsNone(r.seconds)

\* the filter of ev_rows: rows of the event that have seconds and a date
\* not after the reference date (rows always carry a date: the extractor
\* appends a row only when d_iso is set)
InEvRows(r, ev, od) ==
    r.event = ev /\ ~IsNone(r.seconds) /\ date_le(r.date, od)

\* slip: `<=` instead of `==` on the years
InEvYtd_LeYear(r, od) == year(r.date) <= year(od)

\* the filter of ev_ytd, applied to ev_rows
InEvYtd(r, od) == year(r.date) = year(od)

\* one iteration of `for ev in POOL_EVENTS`: the entry out[ev]
BestsOfEvent(rs, ev, od) ==
    LET ev_rows == SelectSeq(rs, LAMBDA r : InEvRows(r, ev, od))
        ev_ytd  == SelectSeq(ev_rows, LAMBDA r : InEvYtd(r, od))
    IN  IF ev_rows = <<>> THEN [pb |-> None, sb |-> None]
        ELSE [pb |-> Some(BestRecord(MinBySeconds(ev_rows))),
              sb |-> IF ev_ytd = <<>> THEN None
                     ELSE Some(BestRecord(MinBySeconds(ev_ytd)))]

wa_compute_pool_bests(rs, od) == [ev \in PoolEventSet |-> BestsOfEvent(rs, ev, od)]

\* the aggregation at the end of swimrankings_scrape_pool_bests
sr_compute_pool_bests(cands, od) == [ev \in PoolEventSet |-> BestsOfEvent(cands, ev, od)]

\* out = {e: {} for e in POOL_EVENTS}
EmptyBests == [ev \in PoolEventSet |-> [pb |-> None, sb |-> None]]

(***************************************************************************)
(* Event classification                                                    *)
(***************************************************************************)

\* slip: the distances are tested in the order 800, 400, 1500
wa_guess_event_key_800First(lbl) ==
    IF lbl = <<>> THEN None
    ELSE LET s == Lower(lbl)
         IN  IF ~(In("free", s) \/ In("freestyle", s) \/ In("fr", s)) THEN None
             ELSE IF In("800", s) THEN Some("800 Free")
             ELSE IF In("400", s) THEN Some("400 Free")
             ELSE IF In("1500", s) THEN Some("1500 Free")
             ELSE None

wa_guess_event_key(lbl) ==
    IF lbl = <<>> THEN None
    ELSE LET s == Lower(lbl)
         IN  IF ~(In("free", s) \/ In("freestyle", s) \/ In("fr", s)) THEN None
             ELSE IF In("400", s) THEN Some("400 Free")
             ELSE IF In("800", s) THEN Some("800 Free")
             ELSE IF In("1500", s) THEN Some("1500 Free")
             ELSE None

(***************************************************************************)
(* JSON values: [t |-> "null" | "str" | "dict" | "list", s, kv].  s holds  *)
(* the tokens of a str.  kv holds the <<key, value>> pairs of a dict in    *)
(* insertion order, and the items of a list as pairs with the key "".      *)
(***************************************************************************)

JNull     == [t |-> "null", s |-> <<>>, kv |-> <<>>]
JStr(s)   == [t |-> "str",  s |-> s,    kv |-> <<>>]
JDict(kv) == [t |-> "dict", s |-> <<>>, kv |-> kv]
JList(xs) == [t |-> "list", s |-> <<>>, kv |-> [i \in 1..Len(xs) |-> <<"", xs[i]>>]]

\* bool(x)
Truthy(x) == x.t # "null" /\ (Len(x.s) > 0 \/ Len(x.kv) > 0)

\* x is not None
NotNull(x) == x.t # "null"

HasKey(x, k) == \E i \in 1..Len(x.kv) : x.kv[i][1] = k

\* x.get(k), x a dict
Get(x, k) ==
    IF HasKey(x, k)
    THEN x.kv[CHOOSE i \in 1..Len(x.kv) : x.kv[i][1] = k][2]
    ELSE JNull

\* a or b
Or(a, b) == IF Truthy(a) THEN a ELSE b

RECURSIVE Flatten(_)
Flatten(ss) == IF ss = <<>> THEN <<>> ELSE Head(ss) \o Flatten(Tail(ss))

\* str(x): the text of a str is itself, the text of a dict or list shows
\* its keys and the texts of its values
RECURSIVE StrOf(_)
StrOf(x) ==
    CASE x.t = "str"  -> x.s
      [] x.t = "null" -> <<"None">>
      [] x.t = "dict" ->
            Flatten([i \in 1..Len(x.kv) |-> <<x.kv[i][1]>> \o StrOf(x.kv[i][2])])
      [] x.t = "list" -> Flatten([i \in 1..Len(x.kv) |-> StrOf(x.kv[i][2])])

(***************************************************************************)
(* Course classification                                                   *)
(***************************************************************************)

COURSE_KEYS == <<"PoolLength", "Pool", "PoolSize", "PoolConfiguration", "Course", "CourseCode">>

LcmExact == {<<"lcm">>, <<"50">>, <<"50m">>, <<"50", " ", "m">>, <<"50-m">>}

\* slip: no evidence is treated as not acceptable
RECURSIVE LcmFrom_Strict(_, _)
LcmFrom_Strict(d, k) ==
    IF k > Len(COURSE_KEYS) THEN FALSE
    ELSE LET v == Get(d, COURSE_KEYS[k])
         IN  IF ~NotNull(v) THEN LcmFrom_Strict(d, k + 1)
             ELSE LET s == Lower(StrOf(v))
                  IN  IF s \in LcmExact THEN TRUE
                      ELSE IF In("50", s) /\ ~In("25", s) THEN TRUE
                      ELSE IF In("lcm", s) \/ In("long", s) THEN TRUE
                      ELSE IF In("25", s) \/ In("scm", s) THEN FALSE
                      ELSE LcmFrom_Strict(d, k + 1)

\* the loop `for k in (...)` of wa_is_lcm_50m from the k-th key on, and the
\* final `return True`
RECURSIVE LcmFrom(_, _)
LcmFrom(d, k) ==
    IF k > Len(COURSE_KEYS) THEN TRUE
    ELSE LET v == Get(d, COURSE_KEYS[k])
         IN  IF ~NotNull(v) THEN LcmFrom(d, k + 1)
             ELSE LET s == Lower(StrOf(v))
                  IN  IF s \in LcmExact THEN TRUE
                      ELSE IF In("50", s) /\ ~In("25", s) THEN TRUE
                      ELSE IF In("lcm", s) \/ In("long", s) THEN TRUE
                      ELSE IF In("25", s) \/ In("scm", s) THEN FALSE
                      ELSE LcmFrom(d, k + 1)

wa_is_lcm_50m(d) == LcmFrom(d, 1)

(***************************************************************************)
(* Tree scanner                                                            *)
(***************************************************************************)

\* the date a token of the form YYYY-MM-DD denotes
DateTok(t) ==
    CASE t = "2025-03-15" -> Some(Date(2025, 3, 15))
      [] t = "2024-07-01" -> Some(Date(2024, 7, 1))
      [] t = "2025-10-01" -> Some(Date(2025, 10, 1))
      [] OTHER            -> None

\* s.replace("Z", "")
DropZ(s) == SelectSeq(s, LAMBDA t : t # "Z")

\* datetime.fromisoformat(u).date(): a date, or a date and a clock time
FromIsoFormat(u) ==
    IF Len(u) = 1 \/ (Len(u) = 2 /\ u[2] = "T10:00:00") THEN DateTok(u[1]) ELSE None

\* parse_iso_date: fromisoformat of the text without "Z", else strptime of
\* its first ten characters
parse_iso_date(s) ==
    IF s = <<>> THEN None
    ELSE IF ~IsNone(FromIsoFormat(DropZ(s))) THEN FromIsoFormat(DropZ(s))
    ELSE DateTok(s[1])

time_val(x)  == Or(Or(Or(Get(x, "Time"), Get(x, "Result")), Get(x, "SwimTime")), Get(x, "Performance"))
date_val(x)  == Or(Or(Or(Get(x, "Date"), Get(x, "StartDate")), Get(x, "CompetitionDate")), Get(x, "From"))
label_val(x) ==
    Or(Or(Or(Or(Get(x, "DisciplineName"), Get(x, "EventName")), Get(x, "Name")),
          Get(x, "Event")), Get(x, "Discipline"))

\* if time_val and (date_val or label_val)
IsCandidate(x) == Truthy(time_val(x)) /\ (Truthy(date_val(x)) \/ Truthy(label_val(x)))

SECONDARY_KEYS == <<"Discipline", "Event", "Race", "Competition">>

\* the loop over the nested label sources from the i-th key on
RECURSIVE SecondaryFrom(_, _)
SecondaryFrom(x, i) ==
    IF i > Len(SECONDARY_KEYS) THEN None
    ELSE LET v2 == Get(x, SECONDARY_KEYS[i])
         IN  IF v2.t # "dict" THEN SecondaryFrom(x, i + 1)
             ELSE LET lbl2 == Or(Or(Get(v2, "DisciplineName"), Get(v2, "EventName")),
                                 Get(v2, "Name"))
                      k == IF Truthy(lbl2) THEN wa_guess_event_key(StrOf(lbl2)) ELSE None
                  IN  IF ~IsNone(k) THEN k ELSE SecondaryFrom(x, i + 1)

\* ev_key of a candidate node
EventOf(x) ==
    LET lv == label_val(x)
        k  == wa_guess_event_key(IF NotNull(lv) THEN StrOf(lv) ELSE <<>>)
    IN  IF ~IsNone(k) THEN k ELSE SecondaryFrom(x, 1)

\* d_iso of a candidate node
DateOf(x) ==
    IF date_val(x).t = "str" THEN parse_iso_date(date_val(x).s) ELSE None

\* str(v) if v is not None else None
OptStr(v) == IF NotNull(v) THEN Some(StrOf(v)) ELSE None

MeetOf(x) ==
    LET m == Or(Or(Get(x, "CompetitionName"), Get(x, "Meet")), Get(x, "Competition"))
    IN  OptStr(IF m.t = "dict" THEN Get(m, "Name") ELSE m)

LocationOf(x) ==
    LET l == Or(Or(Get(x, "City"), Get(x, "Location")), Get(x, "Venue"))
    IN  OptStr(IF l.t = "dict" THEN Or(Get(l, "Name"), Get(l, "City")) ELSE l)

\* the rows the dict branch of visit appends for the node x
NodeRows(x) ==
    IF IsCandidate(x) /\ ~IsNone(EventOf(x)) /\ ~IsNone(DateOf(x)) /\ wa_is_lcm_50m(x)
    THEN <<[event |-> Val(EventOf(x)), time |-> StrOf(time_val(x)),
            seconds |-> wa_time_to_seconds(StrOf(time_val(x))), date |-> Val(DateOf(x)),
            meet |-> MeetOf(x), location |-> LocationOf(x)]>>
    ELSE <<>>

\* the calls visit(v) a dict or list makes, in order, one level deeper
Children(x, depth, path) ==
    [i \in 1..Len(x.kv) |->
        [x |-> x.kv[i][2], depth |-> depth + 1, path |-> Append(path, i)]]

\* wa_extract_pool_rows as a whole: the rows of the nodes in the order
\* visit reaches them
RECURSIVE wa_extract_pool_rows(_)
wa_extract_pool_rows(x) ==
    (IF x.t = "dict" THEN NodeRows(x) ELSE <<>>)
    \o Flatten([i \in 1..Len(x.kv) |-> wa_extract_pool_rows(x.kv[i][2])])

(***************************************************************************)
(* Inputs of the aggregation                                               *)
(***************************************************************************)

MaxRows == 2

AggTimes ==
    {<<"3", ":", "45.00">>, <<"3", ":", "50.00">>, <<"230.00", " ">>, <<"DNF">>}

AggDates == {Date(2024, 7, 1), Date(2025, 3, 15), Date(2025, 9, 1)}

RefDates == {Date(2025, 3, 15), Date(2025, 10, 1)}

\* (meet, location) as wa_extract_pool_rows resolves them
AggMeets ==
    {[meet |-> Some(<<"MeetA">>), location |-> Some(<<"CityA">>)],
     [meet |-> Some(<<"MeetB">>), location |-> None]}

\* a row as wa_extract_pool_rows appends it
MakeRow(ev, t, d, meet, location) ==
    [event |-> ev, time |-> t, seconds |-> wa_time_to_seconds(t), date |-> d,
     meet |-> meet, location |-> location]

\* the rows of the 400 m: every clock time at either meet, the unparseable
\* and the bare-seconds time at one meet; of the 800 m: one time at one meet
AggRows ==
    {MakeRow("400 Free", t, d, m.meet, m.location) :
        d \in AggDates, t \in {<<"3", ":", "45.00">>, <<"3", ":", "50.00">>}, m \in AggMeets}
    \cup
    {MakeRow("400 Free", t, d, Some(<<"MeetA">>), Some(<<"CityA">>)) :
        d \in AggDates, t \in AggTimes}
    \cup
    {MakeRow("800 Free", <<"3", ":", "45.00">>, d, Some(<<"MeetA">>), Some(<<"CityA">>)) :
        d \in AggDates}

SeqsUpTo(S, n) == UNION {[1..k -> S] : k \in 0..n}

\* the time-token regex of the scraper: ^\d{1,2}:\d{2}\.\d{1,2}$
IsSrTimeToken(t) ==
    /\ Len(t) = 3
    /\ t[1] \in {"3", "0"}
    /\ t[2] = ":"
    /\ t[3] \in {"45.00", "50.00", "00.00"}

\* a candidate as the scraper appends it: a matched time token, and
\* meet / location taken from the cells tds[2], tds[3]
IsSrCandidate(r) ==
    /\ IsSrTimeToken(r.time)
    /\ r.seconds = sr_time_to_seconds(r.time)
    /\ ~IsNone(r.meet)
    /\ ~IsNone(r.location)

(***************************************************************************)
(* Idle values of the components a specification does not exercise         *)
(***************************************************************************)

AggIdle   == rows = <<>> /\ ow_date = Date(0, 0, 0) /\ out = EmptyBests /\ aggPc = "idle"
EvIdle    == label = <<>> /\ ev_key = None /\ evPc = "idle"
LcmIdle   == course_d = <<>> /\ lcm = FALSE /\ lcmPc = "idle"
ScanIdle  == js = <<>> /\ stack = <<>> /\ scan_rows = <<>> /\ scanPc = "idle" /\ visited = <<>>
ProbeIdle == probe = [pc |-> "idle"]
HttpIdle  == http = [pc |-> "idle"]
CacheIdle == SR_ID_CACHE = <<>> /\ SB_YTD_CACHE = <<>> /\ SWIMRANKINGS_LIB = FALSE /\ net = 0 /\ call = [n |-> 0]
MainIdle  == run = [pc |-> "idle"] /\ main_rows = <<>> /\ tasks = <<>> /\ xlsx = None
AnIdle    == an = [pc |-> "idle"]

(***************************************************************************)
(* Specification of the aggregation                                        *)
(***************************************************************************)

InitAgg ==
    /\ rows \in SeqsUpTo(AggRows, MaxRows)
    /\ ow_date \in RefDates
    /\ out = EmptyBests
    /\ aggPc = "ready"
    /\ EvIdle /\ LcmIdle /\ ScanIdle /\ ProbeIdle /\ HttpIdle /\ CacheIdle /\ MainIdle /\ AnIdle

\* mapped = wa_compute_pool_bests(rows, ow_date)
WaComputePoolBests ==
    /\ aggPc = "ready"
    /\ out' = wa_compute_pool_bests(rows, ow_date)
    /\ aggPc' = "wa"
    /\ UNCHANGED <<rows, ow_date, evVars, lcmVars, scanVars, probeVars, httpVars, cacheVars, mainVars, anVars>>

\* the "Compute SB_YTD and PB up to OW date" block of the scraper
SrComputePoolBests ==
    /\ aggPc = "ready"
    /\ \A i \in 1..Len(rows) : IsSrCandidate(rows[i])
    /\ out' = sr_compute_pool_bests(rows, ow_date)
    /\ aggPc' = "sr"
    /\ UNCHANGED <<rows, ow_date, evVars, lcmVars, scanVars, probeVars, httpVars, cacheVars, mainVars, anVars>>

NextAgg == WaComputePoolBests \/ SrComputePoolBests

SpecAgg == InitAgg /\ [][NextAgg]_vars

(***************************************************************************)
(* Properties of the aggregation                                           *)
(***************************************************************************)

AggDone == aggPc \in {"wa", "sr"}

\* the seconds and the date an output record stands for
RecSeconds(rec) == Val(wa_time_to_seconds(rec.time))
RecDate(rec) == Date(rec.date[1], rec.date[2], rec.date[3])

\* the indices of the rows of event ev dated not after the reference date
UpTo(ev) ==
    {i \in 1..Len(rows) : rows[i].event = ev /\ date_le(rows[i].date, ow_date)}

\* those of them that carry seconds
Timed(ev) == {i \in UpTo(ev) : ~IsNone(rows[i].seconds)}

\* those of them dated in the reference date's year
TimedYtd(ev) == {i \in Timed(ev) : rows[i].date.y = ow_date.y}

IsMinOf(x, I) ==
    /\ \E i \in I : Val(rows[i].seconds) = x
    /\ \A i \in I : x <= Val(rows[i].seconds)

\* C1: a produced personal best is dated not after the reference date and
\* its seconds are the minimum over the rows of its event dated not after
\* the reference date.
C1_PersonalBestIsMin ==
    AggDone =>
        \A ev \in PoolEventSet :
            ~IsNone(out[ev].pb) =>
                /\ date_le(RecDate(Val(out[ev].pb)), ow_date)
                /\ IsMinOf(RecSeconds(Val(out[ev].pb)), Timed(ev))

\* C1 witness: a personal best was produced although a strictly faster row
\* of the same event lies after the reference date.
C1_Witness ==
    /\ AggDone
    /\ ~IsNone(out["400 Free"].pb)
    /\ \E k \in 1..Len(rows) :
          /\ rows[k].event = "400 Free"
          /\ ~date_le(rows[k].date, ow_date)
          /\ ~IsNone(rows[k].seconds)
          /\ Val(rows[k].seconds) < RecSeconds(Val(out["400 Free"].pb))

\* C2: a produced season best is dated in the reference date's year and not
\* after the reference date, and is never faster than the personal best.
C2_SeasonBestBounds ==
    AggDone =>
        \A ev \in PoolEventSet :
            ~IsNone(out[ev].sb) =>
                /\ RecDate(Val(out[ev].sb)).y = ow_date.y
                /\ date_le(RecDate(Val(out[ev].sb)), ow_date)
                /\ ~IsNone(out[ev].pb)
                /\ RecSeconds(Val(out[ev].sb)) >= RecSeconds(Val(out[ev].pb))

\* C2 witness: a season best strictly slower than the personal best, the
\* personal best being of an earlier year.
C2_Witness ==
    /\ AggDone
    /\ ~IsNone(out["400 Free"].sb)
    /\ RecSeconds(Val(out["400 Free"].sb)) > RecSeconds(Val(out["400 Free"].pb))
    /\ RecDate(Val(out["400 Free"].pb)).y < ow_date.y

\* C3: a personal best is present exactly when some row of the event is
\* dated not after the reference date, a season best exactly when some such
\* row is also of the reference date's year.
C3_PresenceIffQualifyingRow ==
    AggDone =>
        \A ev \in PoolEventSet :
            /\ ~IsNone(out[ev].pb) <=> UpTo(ev) # {}
            /\ ~IsNone(out[ev].sb) <=>
                   \E i \in UpTo(ev) : rows[i].date.y = ow_date.y

\* the first index of I whose row has the least seconds of I
FirstMin(I) ==
    CHOOSE i \in I :
        /\ \A j \in I : Val(rows[i].seconds) <= Val(rows[j].seconds)
        /\ \A j \in I : Val(rows[j].seconds) = Val(rows[i].seconds) => i <= j

\* the index of I whose row has the least seconds, then the earliest date,
\* then the least position
EarliestMin(I) ==
    CHOOSE i \in I :
        /\ \A j \in I : Val(rows[i].seconds) <= Val(rows[j].seconds)
        /\ \A j \in I : Val(rows[j].seconds) = Val(rows[i].seconds) =>
               \/ rows[i].date # rows[j].date /\ date_le(rows[i].date, rows[j].date)
               \/ rows[i].date = rows[j].date /\ i <= j

\* C4 as stated: among the rows sharing the minimum seconds the record is
\* the one of earliest date, then the first encountered.
C4_TieEarliestDate ==
    AggDone =>
        \A ev \in PoolEventSet :
            /\ Timed(ev) # {} =>
                   out[ev].pb = Some(BestRecord(rows[EarliestMin(Timed(ev))]))
            /\ TimedYtd(ev) # {} =>
                   out[ev].sb = Some(BestRecord(rows[EarliestMin(TimedYtd(ev))]))

\* C4 amended: among the rows sharing the minimum seconds the record is the
\* first one encountered in the input list, whatever its date.
C4_TieFirstEncountered ==
    AggDone =>
        \A ev \in PoolEventSet :
            /\ Timed(ev) # {} =>
                   out[ev].pb = Some(BestRecord(rows[FirstMin(Timed(ev))]))
            /\ TimedYtd(ev) # {} =>
                   out[ev].sb = Some(BestRecord(rows[FirstMin(TimedYtd(ev))]))

\* C4 witness: two qualifying rows of the reference year tie on seconds and
\* the first encountered has the later date.
C4_Witness ==
    /\ AggDone
    /\ \E i, j \in TimedYtd("400 Free") :
          /\ i < j
          /\ rows[i].seconds = rows[j].seconds
          /\ rows[i].date # rows[j].date
          /\ date_le(rows[j].date, rows[i].date)
          /\ FirstMin(TimedYtd("400 Free")) = i

\* the lists that hold the same rows as s in another order
PermsOf(s) ==
    {[i \in 1..Len(s) |-> s[f[i]]] :
        f \in {g \in [1..Len(s) -> 1..Len(s)] :
                  \A a, b \in 1..Len(s) : g[a] = g[b] => a = b}}

\* the aggregation the state was produced by, applied to another list
Recompute(rs) ==
    IF aggPc = "sr" THEN sr_compute_pool_bests(rs, ow_date)
    ELSE wa_compute_pool_bests(rs, ow_date)

\* C5 as stated: every permutation of the input yields identical records.
C5_PermutationSameRecords ==
    AggDone => \A p \in PermsOf(rows) : Recompute(p) = out

\* no two rows of event ev that carry seconds and are dated not after the
\* reference date tie on seconds unless they are the same row
NoTie(ev) ==
    \A i, j \in Timed(ev) :
        rows[i].seconds = rows[j].seconds => rows[i] = rows[j]

SameSeconds(a, b) ==
    /\ IsNone(a) <=> IsNone(b)
    /\ ~IsNone(a) => RecSeconds(Val(a)) = RecSeconds(Val(b))

\* C5 amended: every permutation of the input yields, for every event, a
\* personal best and a season best that are present or absent alike and of
\* equal seconds; the whole records are identical for an event whose
\* qualifying rows do not tie on seconds.
C5_PermutationSameSeconds ==
    AggDone =>
        \A p \in PermsOf(rows) :
            LET other == Recompute(p)
            IN  \A ev \in PoolEventSet :
                    /\ SameSeconds(other[ev].pb, out[ev].pb)
                    /\ SameSeconds(other[ev].sb, out[ev].sb)
                    /\ NoTie(ev) => other[ev] = out[ev]

\* C5 witness: the input holds two qualifying rows of one event with
\* different seconds, the slower one first, so a permutation changes which
\* row is met first.
C5_Witness ==
    /\ AggDone
    /\ \E i, j \in Timed("400 Free") :
          i < j /\ Val(rows[i].seconds) > Val(rows[j].seconds)
    /\ NoTie("400 Free")

(***************************************************************************)
(* Specification of the event classification                               *)
(***************************************************************************)

MaxLabelLen == 3

LabelTokens == {"400", "800m", "1500", "Free", "Freestyle", "Fr", "Back", "Africa"}

InitEv ==
    /\ label \in SeqsUpTo(LabelTokens, MaxLabelLen)
    /\ ev_key = None
    /\ evPc = "ready"
    /\ AggIdle /\ LcmIdle /\ ScanIdle /\ ProbeIdle /\ HttpIdle /\ CacheIdle /\ MainIdle /\ AnIdle

\* ev_key = wa_guess_event_key(label)
GuessEventKey ==
    /\ evPc = "ready"
    /\ ev_key' = wa_guess_event_key(label)
    /\ evPc' = "done"
    /\ UNCHANGED <<label, aggVars, lcmVars, scanVars, probeVars, httpVars, cacheVars, mainVars, anVars>>

NextEv == GuessEventKey

SpecEv == InitEv /\ [][NextEv]_vars

\* the first distance of 400, 800, 1500 that the lower-cased label contains
FirstDistance(s) ==
    IF In("400", s) THEN Some("400 Free")
    ELSE IF In("800", s) THEN Some("800 Free")
    ELSE IF In("1500", s) THEN Some("1500 Free")
    ELSE None

\* C9 as stated: at most one target event is returned, only for a label
\* that contains "free" or "freestyle" together with a distance, and the
\* first distance in the order 400, 800, 1500 wins.
C9_FreestyleTokenRequired ==
    evPc = "done" =>
        LET s == Lower(label)
        IN  /\ ev_key \in {None} \cup {Some(e) : e \in PoolEventSet}
            /\ ~IsNone(ev_key) =>
                   /\ In("free", s) \/ In("freestyle", s)
                   /\ ev_key = FirstDistance(s)

\* C9 amended: at most one target event is returned, only for a label whose
\* lower-cased text contains "fr" (as "free" and "freestyle" do, and so do
\* the abbreviation "Fr" and any other word holding these two letters)
\* together with a distance, and the first distance in the order 400, 800,
\* 1500 wins.
C9_FrSubstringRequired ==
    evPc = "done" =>
        LET s == Lower(label)
        IN  /\ ev_key \in {None} \cup {Some(e) : e \in PoolEventSet}
            /\ ~IsNone(ev_key) =>
                   /\ In("fr", s)
                   /\ ev_key = FirstDistance(s)

\* C9 witness: a label with two distances, the later in the fixed order
\* written first, and no "free" in it, is classified.
C9_Witness ==
    /\ evPc = "done"
    /\ label = <<"800m", "400", "Fr">>
    /\ ev_key = Some("400 Free")

(***************************************************************************)
(* Specification of the course classification                              *)
(***************************************************************************)

\* the values a course field takes: absent, or one of these texts
CourseTexts ==
    {<<"50m">>, <<"SCM">>, <<"LCM">>, <<"50m", "25m">>, <<"Open">>}

CourseFieldValues == {None} \cup {Some(JStr(t)) : t \in CourseTexts}

\* the dict holding the present fields of f, in the order of ks
RECURSIVE DictPairs(_, _)
DictPairs(f, ks) ==
    IF ks = <<>> THEN <<>>
    ELSE (IF IsNone(f[Head(ks)]) THEN <<>> ELSE << <<Head(ks), Val(f[Head(ks)])>> >>)
         \o DictPairs(f, Tail(ks))

CourseKeySet == {COURSE_KEYS[i] : i \in 1..Len(COURSE_KEYS)}

InitLcm ==
    /\ \E f \in [CourseKeySet -> CourseFieldValues] :
          course_d = JDict(DictPairs(f, COURSE_KEYS))
    /\ lcm = FALSE
    /\ lcmPc = "ready"
    /\ AggIdle /\ EvIdle /\ ScanIdle /\ ProbeIdle /\ HttpIdle /\ CacheIdle /\ MainIdle /\ AnIdle

\* lcm = wa_is_lcm_50m(d)
IsLcm50m ==
    /\ lcmPc = "ready"
    /\ lcm' = wa_is_lcm_50m(course_d)
    /\ lcmPc' = "done"
    /\ UNCHANGED <<course_d, aggVars, evVars, scanVars, probeVars, httpVars, cacheVars, mainVars, anVars>>

NextLcm == IsLcm50m

SpecLcm == InitLcm /\ [][NextLcm]_vars

\* some course field of x holds a short-course marker
HasShort(x) ==
    \E i \in 1..Len(COURSE_KEYS) :
        LET v == Get(x, COURSE_KEYS[i])
        IN  NotNull(v) /\ (In("25", Lower(StrOf(v))) \/ In("scm", Lower(StrOf(v))))

\* some course field of x holds a long-course marker
HasLong(x) ==
    \E i \in 1..Len(COURSE_KEYS) :
        LET v == Get(x, COURSE_KEYS[i])
        IN  /\ NotNull(v)
            /\ \/ In("50", Lower(StrOf(v)))
               \/ In("lcm", Lower(StrOf(v)))
               \/ In("long", Lower(StrOf(v)))

\* C6: a result dict with a short-course marker in any of its course fields
\* is rejected, whatever long-course marker it also holds and whichever
\* field or marker is examined first.
C6_RejectDominant ==
    lcmPc = "done" => (HasShort(course_d) => lcm = FALSE)

(***************************************************************************)
(* Specification of the tree scanner                                       *)
(***************************************************************************)

MaxItems == 2

Field(k, o) == IF IsNone(o) THEN <<>> ELSE << <<k, Val(o)>> >>

ScanTimes == {None, Some(JStr(<<"3", ":", "50.00">>)), Some(JStr(<<"DNF">>)), Some(JStr(<<"-5">>))}

ScanDates == {None, Some(JStr(<<"2025-03-15", "T10:00:00", "Z">>)), Some(JStr(<<"soon">>))}

\* the label fields of a node: none, a freestyle label, another stroke, or
\* a nested discipline object
ScanLabels ==
    {<<>>,
     << <<"DisciplineName", JStr(<<"400", "Free">>)>> >>,
     << <<"DisciplineName", JStr(<<"400", "Back">>)>> >>,
     << <<"Race", JDict(<< <<"Name", JStr(<<"800m", "Freestyle">>)>> >>)>> >>}

ScanPools == {None, Some(JStr(<<"50m">>)), Some(JStr(<<"25m">>))}

ScanCourses == {None, Some(JStr(<<"LCM">>)), Some(JStr(<<"SCM">>))}

ScanMeets == {None, Some(JStr(<<"MeetA">>))}

ScanNodes ==
    {JDict(Field("Time", t) \o Field("Date", d) \o l \o Field("PoolLength", p)
           \o Field("Course", c) \o Field("CompetitionName", m)) :
        t \in ScanTimes, d \in ScanDates, l \in ScanLabels, p \in ScanPools,
        c \in ScanCourses, m \in ScanMeets}

GoodNodePairs ==
    << <<"Time", JStr(<<"3", ":", "50.00">>)>>, <<"Date", JStr(<<"2025-03-15">>)>>,
       <<"DisciplineName", JStr(<<"400", "Free">>)>>, <<"PoolLength", JStr(<<"50m">>)>> >>

\* the nodes that lists and nested payloads are built from
ListNodes ==
    {JDict(GoodNodePairs),
     JDict(<< <<"Result", JStr(<<"DNF">>)>>, <<"StartDate", JStr(<<"2024-07-01">>)>>,
              <<"EventName", JStr(<<"1500", "Freestyle">>)>> >>),
     JDict(<< <<"Time", JStr(<<"3", ":", "45.00">>)>>, <<"Date", JStr(<<"2025-03-15">>)>>,
              <<"Name", JStr(<<"800m", "Free">>)>>, <<"Course", JStr(<<"SCM">>)>> >>)}

MaxNesting == 4

\* a qualifying node inside n lists, one in the other
RECURSIVE Nested(_)
Nested(n) == IF n = 0 THEN JDict(GoodNodePairs) ELSE JList(<<Nested(n - 1)>>)

JsonInputs ==
    ScanNodes
    \cup {Nested(n) : n \in 1..MaxNesting}
    \cup {JList(s) : s \in SeqsUpTo(ListNodes, MaxItems)}
    \cup {JDict(<< <<"Results", JList(s)>> >>) : s \in SeqsUpTo(ListNodes, MaxItems)}
    \cup {JDict(GoodNodePairs \o << <<"Splits", JList(<<n>>)>> >>) : n \in ListNodes}

\* the nested calls of visit the interpreter allows: its recursion limit
\* (sys.getrecursionlimit(), 1000 unless changed) less the frames in use
\* when the scan starts; here of the size of the payloads modelled
RecursionLimit == 5

\* `for v in x.values(): visit(v)` and `for it in x: visit(it)` are
\* unconditional: a dict or a list is descended into at any depth
Descends(x, depth) == x.t \in {"dict", "list"}

\* rows = []; visit(js)
InitScan ==
    /\ js \in JsonInputs
    /\ stack = <<[x |-> js, depth |-> 1, path |-> <<>>]>>
    /\ scan_rows = <<>>
    /\ scanPc = "visit"
    /\ visited = <<>>
    /\ AggIdle /\ EvIdle /\ LcmIdle /\ ProbeIdle /\ HttpIdle /\ CacheIdle /\ MainIdle /\ AnIdle

\* one call of visit(x): append the node's row, then recurse into its values
Visit ==
    /\ scanPc = "visit"
    /\ stack # <<>>
    /\ Head(stack).depth <= RecursionLimit
    /\ LET e == Head(stack)
       IN  /\ scan_rows' = IF e.x.t = "dict" THEN scan_rows \o NodeRows(e.x) ELSE scan_rows
           /\ stack' = (IF Descends(e.x, e.depth) THEN Children(e.x, e.depth, e.path)
                        ELSE <<>>) \o Tail(stack)
           /\ visited' = IF e.x.t \in {"dict", "list"} THEN Append(visited, e.path)
                         ELSE visited
    /\ UNCHANGED <<js, scanPc, aggVars, evVars, lcmVars, probeVars, httpVars, cacheVars, mainVars, anVars>>

\* the call of visit that exceeds the interpreter's limit raises
\* RecursionError; nothing in the scan catches it, the list `rows` is lost
VisitRaises ==
    /\ scanPc = "visit"
    /\ stack # <<>>
    /\ Head(stack).depth > RecursionLimit
    /\ scanPc' = "raised"
    /\ stack' = <<>>
    /\ scan_rows' = <<>>
    /\ UNCHANGED <<js, visited, aggVars, evVars, lcmVars, probeVars, httpVars, cacheVars, mainVars, anVars>>

\* return rows
ScanReturn ==
    /\ scanPc = "visit"
    /\ stack = <<>>
    /\ scanPc' = "done"
    /\ UNCHANGED <<js, stack, scan_rows, visited, aggVars, evVars, lcmVars, probeVars, httpVars, cacheVars, mainVars, anVars>>

NextScan == Visit \/ VisitRaises \/ ScanReturn

SpecScan == InitScan /\ [][NextScan]_vars

\* the stepwise scan returns what wa_extract_pool_rows gives as a whole
ScanMatchesExtract == scanPc = "done" => scan_rows = wa_extract_pool_rows(js)

\* the step visits the node Cur
Visiting == scanPc = "visit" /\ stack # <<>> /\ stack' # stack
Cur == Head(stack).x

\* the step appends a row
Appended == Len(scan_rows') = Len(scan_rows) + 1

\* the node meets every condition of a row other than the course check
RowButCourse(x) ==
    x.t = "dict" /\ IsCandidate(x) /\ ~IsNone(EventOf(x)) /\ ~IsNone(DateOf(x))

C8_SecondsPresentPositive ==
    \A i \in 1..Len(scan_rows) :
        ~IsNone(scan_rows[i].seconds) /\ Val(scan_rows[i].seconds) > 0

(***************************************************************************)
(* Endpoint probing: fetch_wa_profile and fetch_wa_pool_best_attempt       *)
(***************************************************************************)

\* the candidate lists, by their path after FINA_BASE
PROFILE_CANDIDATES ==
    <<"persons/", "person/", "athletes/", "athlete/", "competitors/", "competitor/",
      "profiles/", "profile/">>

POOL_CANDIDATES ==
    <<"persons/results", "person/results", "athletes/results", "athlete/results">>

Candidates(fn) == IF fn = "profile" THEN PROFILE_CANDIDATES ELSE POOL_CANDIDATES

\* what one http_get_json(url, HEADERS_WA, retries=1, pause=0.2) gives: an
\* exception (ok = FALSE: HTTP error, timeout, no JSON), or the parsed body
Failed == [ok |-> FALSE, body |-> JNull]
Body(b) == [ok |-> TRUE, body |-> b]

ProfileBody == JDict(<< <<"Gender", JStr(<<"F">>)>> >>)

\* a failure, an empty object, a text, a profile object, and an array with
\* one qualifying performance
Responses ==
    {Failed, Body(JDict(<<>>)), Body(JStr(<<"OK">>)), Body(ProfileBody),
     Body(JList(<<JDict(GoodNodePairs)>>))}

\* the value a fetch returns: the profile dict, or the mapped bests
\* (None stands for the {} of a fetch that found nothing)
NoResult == [profile |-> JDict(<<>>), mapped |-> None]

\* slip: a non-empty array is taken as a profile too
ProfileAccepts_AnyBody(r) == r.ok /\ Truthy(r.body)

\* if isinstance(js, dict) and js
ProfileAccepts(r) == r.ok /\ r.body.t = "dict" /\ Truthy(r.body)

\* the pool attempt goes on with the body unless `not js`
PoolAccepts(r) == r.ok /\ Truthy(r.body)

\* rows = wa_extract_pool_rows(js); {} without rows, else the bests
PoolResult(body, od) ==
    LET rs == wa_extract_pool_rows(body)
    IN  [profile |-> JDict(<<>>),
         mapped |-> IF rs = <<>> THEN None ELSE Some(wa_compute_pool_bests(rs, od))]

ProfileResult(body) == [profile |-> body, mapped |-> None]

InitProbe ==
    /\ \E fn \in {"profile", "pool"}, id \in {"", "1001"} :
          probe = [pc |-> "start", fn |-> fn, wa_id |-> id, od |-> Date(2025, 8, 1),
                   i |-> 1, requested |-> <<>>, got |-> <<>>, result |-> NoResult]
    /\ AggIdle /\ EvIdle /\ LcmIdle /\ ScanIdle /\ HttpIdle /\ CacheIdle /\ MainIdle /\ AnIdle

\* if not wa_id: return {}
ProbeNoId ==
    /\ probe.pc = "start"
    /\ probe.wa_id = ""
    /\ probe' = [probe EXCEPT !.pc = "done", !.result = NoResult]
    /\ UNCHANGED <<aggVars, evVars, lcmVars, scanVars, httpVars, cacheVars, mainVars, anVars>>

\* the candidate list is built, the loop is entered
ProbeStart ==
    /\ probe.pc = "start"
    /\ probe.wa_id # ""
    /\ probe' = [probe EXCEPT !.pc = "loop"]
    /\ UNCHANGED <<aggVars, evVars, lcmVars, scanVars, httpVars, cacheVars, mainVars, anVars>>

\* a variant whose handler lets the RuntimeError of http_get_json leave the function
ExceptContinue_Reraise == "raised"

\* `except Exception: continue`: the failure of one candidate is swallowed and
\* the loop goes on with the next candidate
ExceptContinue == "loop"

\* where an iteration leaves the function: a return on an accepted body, the
\* handler on a failed request, the next candidate otherwise
AfterIteration(accepted, r) ==
    IF accepted THEN "done" ELSE IF r.ok THEN "loop" ELSE ExceptContinue

\* one iteration of `for url in candidates` of fetch_wa_profile
ProfileIteration ==
    /\ probe.pc = "loop"
    /\ probe.fn = "profile"
    /\ probe.i <= Len(PROFILE_CANDIDATES)
    /\ \E r \in Responses :
          probe' = [probe EXCEPT
                      !.requested = Append(@, PROFILE_CANDIDATES[probe.i]),
                      !.got = Append(@, r),
                      !.i = @ + 1,
                      !.pc = AfterIteration(ProfileAccepts(r), r),
                      !.result = IF ProfileAccepts(r) THEN ProfileResult(r.body) ELSE @]
    /\ UNCHANGED <<aggVars, evVars, lcmVars, scanVars, httpVars, cacheVars, mainVars, anVars>>

\* one iteration of `for url in candidates` of fetch_wa_pool_best_attempt
PoolIteration ==
    /\ probe.pc = "loop"
    /\ probe.fn = "pool"
    /\ probe.i <= Len(POOL_CANDIDATES)
    /\ \E r \in Responses :
          probe' = [probe EXCEPT
                      !.requested = Append(@, POOL_CANDIDATES[probe.i]),
                      !.got = Append(@, r),
                      !.i = @ + 1,
                      !.pc = AfterIteration(PoolAccepts(r), r),
                      !.result = IF PoolAccepts(r) THEN PoolResult(r.body, probe.od) ELSE @]
    /\ UNCHANGED <<aggVars, evVars, lcmVars, scanVars, httpVars, cacheVars, mainVars, anVars>>

\* the loop ran out of candidates: return {}
ProbeExhausted ==
    /\ probe.pc = "loop"
    /\ probe.i > Len(Candidates(probe.fn))
    /\ probe' = [probe EXCEPT !.pc = "done", !.result = NoResult]
    /\ UNCHANGED <<aggVars, evVars, lcmVars, scanVars, httpVars, cacheVars, mainVars, anVars>>

NextProbe == ProbeNoId \/ ProbeStart \/ ProfileIteration \/ PoolIteration \/ ProbeExhausted

SpecProbe == InitProbe /\ [][NextProbe]_vars

\* the requests made are the first candidates of the list, in list order
InListOrder ==
    /\ Len(probe.requested) <= Len(Candidates(probe.fn))
    /\ \A k \in 1..Len(probe.requested) : probe.requested[k] = Candidates(probe.fn)[k]

\* a response with a non-empty JSON object or array
NonEmptyJson(r) == r.ok /\ r.body.t \in {"dict", "list"} /\ Len(r.body.kv) > 0

\* a response with a non-empty JSON object
NonEmptyObject(r) == r.ok /\ r.body.t = "dict" /\ Len(r.body.kv) > 0

\* the value each fetch derives from a body
Derived(body) ==
    IF probe.fn = "profile" THEN ProfileResult(body) ELSE PoolResult(body, probe.od)

NonEmptyBody(r) == r.ok /\ r.body.t # "null" /\ (Len(r.body.s) > 0 \/ Len(r.body.kv) > 0)

\* the response that ends the probing of each fetch
Wins(r) == IF probe.fn = "profile" THEN NonEmptyObject(r) ELSE NonEmptyBody(r)

AllFailed ==
    /\ Len(probe.got) = Len(Candidates(probe.fn))
    /\ \A k \in 1..Len(probe.got) : ~probe.got[k].ok

C11_AllEndpointsFailReturnsEmpty ==
    /\ probe.pc # "raised"
    /\ (probe.pc = "done" /\ AllFailed) => probe.result = NoResult

C11_Witness ==
    /\ probe.pc = "done"
    /\ probe.fn = "pool"
    /\ AllFailed
    /\ Len(probe.requested) = Len(POOL_CANDIDATES)
    /\ probe.result = NoResult

(***************************************************************************)
(* http_get_json / http_get_text: the retry loop around requests.get       *)
(***************************************************************************)

\* the largest `retries` argument explored (the call sites pass 1, 2 and the
\* default 3)
MaxRetries == 3

\* the `pause` arguments of the call sites, in hundredths of a second:
\* 0.2 (WA candidates), 0.5 (SwimRankings page), 0.8 (default)
Pauses == {20, 50, 80}

\* what one requests.get can come to: a JSON body, a body that is not JSON,
\* an exception of requests.get (connection error, the 30 s timeout), an
\* HTTP error status raised by raise_for_status
GetOutcomes == {"json_body", "text_body", "timeout", "status"}

\* the try block reaches its return: r.json() raises on a body that is not
\* JSON, r.text never raises
Succeeds(kind, o) ==
    \/ o = "json_body"
    \/ o = "text_body" /\ kind = "text"

\* a variant of the loop bound that makes one attempt too many
MayAttempt_OneMore(n, retries) == n <= retries

\* `for _ in range(retries)`: a further attempt is made while fewer than
\* `retries` have been made
MayAttempt(n, retries) == n < retries

\* a variant that doubles the delay with every failed attempt
Delay_Doubling(pause, k) == pause * 2 ^ (k - 1)

\* `time.sleep(pause)`: the delay after the k-th failed attempt
Delay(pause, k) == pause

InitHttp ==
    /\ \E kind \in {"json", "text"}, n \in 0..MaxRetries, p \in Pauses :
          http = [pc |-> "loop", kind |-> kind, retries |-> n, pause |-> p,
                  attempts |-> <<>>, sleeps |-> <<>>, result |-> None]
    /\ AggIdle /\ EvIdle /\ LcmIdle /\ ScanIdle /\ ProbeIdle /\ CacheIdle /\ MainIdle /\ AnIdle

\* one iteration of the loop: the GET, then the return or the handler
HttpAttempt ==
    /\ http.pc = "loop"
    /\ MayAttempt(Len(http.attempts), http.retries)
    /\ \E o \in GetOutcomes :
          http' = IF Succeeds(http.kind, o)
                  THEN [http EXCEPT !.attempts = Append(@, o),
                                    !.result = Some(o),
                                    !.pc = "returned"]
                  ELSE [http EXCEPT !.attempts = Append(@, o),
                                    !.sleeps = Append(@, Delay(http.pause, Len(@) + 1))]
    /\ UNCHANGED <<aggVars, evVars, lcmVars, scanVars, probeVars, cacheVars, mainVars, anVars>>

\* the loop is exhausted: raise RuntimeError("GET failed: ...")
HttpGiveUp ==
    /\ http.pc = "loop"
    /\ ~MayAttempt(Len(http.attempts), http.retries)
    /\ http' = [http EXCEPT !.pc = "raised"]
    /\ UNCHANGED <<aggVars, evVars, lcmVars, scanVars, probeVars, cacheVars, mainVars, anVars>>

NextHttp == HttpAttempt \/ HttpGiveUp

SpecHttp == InitHttp /\ [][NextHttp]_vars

\* every requests.get carries timeout=30 and the sleep is finite, so an
\* iteration that can be taken is taken
SpecHttpFair == SpecHttp /\ WF_vars(NextHttp)

\* ---------------------------------------------------------------------------
\* C12: a call of http_get_json / http_get_text terminates after at most
\* `retries` GET attempts: it returns the first successful response without
\* any further attempt, and after `retries` consecutive failures it stops and
\* reports the failure (raises) instead of trying again.
FailedAttempt(k) == ~Succeeds(http.kind, http.attempts[k])

HttpEnded == http.pc \in {"returned", "raised"}

HttpWithinRetries ==
    LET n == Len(http.attempts) IN
    /\ n <= http.retries
    /\ \A k \in 1..(n - 1) : FailedAttempt(k)
    /\ http.pc = "loop" => \A k \in 1..n : FailedAttempt(k)
    /\ http.pc = "returned" =>
          /\ n >= 1
          /\ ~FailedAttempt(n)
          /\ http.result = Some(http.attempts[n])
    /\ http.pc = "raised" =>
          /\ n = http.retries
          /\ \A k \in 1..n : FailedAttempt(k)
          /\ http.result = None

C12_TerminatesWithinRetries == []HttpWithinRetries /\ <>HttpEnded

C12_Witness ==
    /\ http.pc = "raised"
    /\ http.retries = 3
    /\ http.kind = "json"
    /\ http.attempts = <<"timeout", "status", "text_body">>

\* ---------------------------------------------------------------------------
\* C13 (as stated): the delay grows between failed attempts: the delay
\* before attempt k+1 is strictly greater than the delay before attempt k.
DelayBefore(k) == http.sleeps[k - 1]

MaxLookups == 3

\* http_get_text(url, HEADERS_SR, retries=2, pause=0.5)
SR_RETRIES == 2

\* what a call of http_get_text with `retries` attempts can come to: the
\* number of GETs it issued and whether it returned (ok) or raised
HttpRuns(retries) ==
    {[gets |-> g, ok |-> TRUE] : g \in 1..retries} \cup {[gets |-> retries, ok |-> FALSE]}

\* str.upper() on one token
UpperTok(t) ==
    CASE t = "Doe" -> "DOE"
      [] OTHER     -> t

\* norm_name on one token: characters other than letters, blanks, "-" and "'"
\* become blanks, blanks are collapsed and stripped
NormTok(t) ==
    CASE t = "Doe." -> "Doe"
      [] t = ", "   -> ""
      [] t = ","    -> ""
      [] OTHER      -> t

norm_name(s) ==
    SelectSeq([i \in 1..Len(s) |-> NormTok(s[i])], LAMBDA t : t # "")

\* split_last_first: at the first ", " when there is one, else at the first blank
split_last_first(full_name) ==
    IF \E i \in 1..Len(full_name) : full_name[i] = ", "
    THEN LET i == CHOOSE i \in 1..Len(full_name) :
                     /\ full_name[i] = ", "
                     /\ \A j \in 1..(i - 1) : full_name[j] # ", "
         IN  <<SubSeq(full_name, 1, i - 1), SubSeq(full_name, i + 1, Len(full_name))>>
    ELSE IF full_name = <<>> THEN <<<<>>, <<>>>>
    ELSE <<<<Head(full_name)>>, Tail(full_name)>>

\* the tests of the two matching loops over the search result; the first
\* loop filters on the country when `nat` is given, the fallback does not
SrMatches(ath, first, nat, with_nat) ==
    /\ (with_nat /\ nat # "") => ath.country = nat
    /\ first # <<>> => Lower(ath.first_name) = Lower(first)
    /\ ~IsNone(ath.athlete_id)

\* the id of matches[0], None without a match
SrPick(athletes, first, nat) ==
    LET strict == SelectSeq(athletes, LAMBDA a : SrMatches(a, first, nat, TRUE))
        loose  == SelectSeq(athletes, LAMBDA a : SrMatches(a, first, nat, FALSE))
        matches == IF strict # <<>> THEN strict ELSE loose
    IN  IF matches = <<>> THEN None ELSE matches[1].athlete_id

\* a variant of the cache test that never finds the key
Cached_Never(cache, key) == FALSE

\* `if key in _SB_YTD_CACHE` / `if key in _SR_ID_CACHE`
Cached(cache, key) == key \in DOMAIN cache

\* a variant of the key that names the athlete alone
SbKey_AthleteOnly(athlete_id, od) == <<athlete_id, 0, <<>>>>

\* key = (athlete_id, ow_date.year, ow_date.isoformat())
SbKey(athlete_id, od) == <<athlete_id, year(od), isoformat(od)>>

\* cache[key] = value
Store(cache, key, value) == (key :> value) @@ cache

SrAthleteIds == {7, 9}

\* the rows the scraper finds on an athlete page: none, or one 400 m swum
\* between the two reference dates
SrPageWithRow ==
    <<[event |-> "400 Free", time |-> <<"3", ":", "45.00">>,
       seconds |-> sr_time_to_seconds(<<"3", ":", "45.00">>), date |-> Date(2025, 9, 1),
       meet |-> Some(<<"MeetA">>), location |-> Some(<<"CityA">>)]>>

SrPages == {<<>>, SrPageWithRow}

\* "LastName, FirstName" as fetch_event_results builds it, and the empty name
FullNames == {<<"Doe.", ", ", "John">>, <<>>}

Nats == {"USA", ""}

\* the athletes a search by last name can return
SrJohnUsa == [country |-> "USA", first_name |-> <<"JOHN">>, athlete_id |-> Some(7)]

SrJohnIta == [country |-> "ITA", first_name |-> <<"John">>, athlete_id |-> Some(9)]

SrAthletes == {SrJohnUsa, SrJohnIta}

MaxSearchHits == 2

InitCache ==
    /\ SR_ID_CACHE = <<>>
    /\ SB_YTD_CACHE = <<>>
    /\ SWIMRANKINGS_LIB \in BOOLEAN
    /\ net = 0
    /\ call = [n |-> 0]
    /\ AggIdle /\ EvIdle /\ LcmIdle /\ ScanIdle /\ ProbeIdle /\ HttpIdle /\ MainIdle /\ AnIdle

\* swimrankings_scrape_pool_bests(athlete_id, od): what one call does to the
\* cache and the network, and what it returns (`call`); `runs` and `pages`
\* are what the network may answer: the ways http_get_text may go and the
\* candidate rows the page may hold
ScrapeCall(athlete_id, od, runs, pages) ==
    LET key == SbKey(athlete_id, od) IN
    /\ IF Cached(SB_YTD_CACHE, key)
       THEN /\ call' = [n |-> call.n + 1, fn |-> "scrape", args |-> <<athlete_id, od>>,
                        key |-> key, hit |-> TRUE,
                        gets |-> 0, raised |-> FALSE, ret |-> Some(SB_YTD_CACHE[key])]
            /\ UNCHANGED <<SB_YTD_CACHE, net>>
       ELSE \E r \in runs, candidates \in pages :
               LET result == sr_compute_pool_bests(candidates, od) IN
               /\ net' = net + r.gets
               /\ SB_YTD_CACHE' = IF r.ok THEN Store(SB_YTD_CACHE, key, result)
                                  ELSE SB_YTD_CACHE
               /\ call' = [n |-> call.n + 1, fn |-> "scrape", args |-> <<athlete_id, od>>,
                           key |-> key, hit |-> FALSE,
                           gets |-> r.gets, raised |-> ~r.ok,
                           ret |-> IF r.ok THEN Some(result) ELSE None]
    /\ UNCHANGED <<SR_ID_CACHE, SWIMRANKINGS_LIB>>

\* swimrankings_find_athlete_id(full_name, nat); what it returns is an
\* Optional id, so `ret` holds Some(None) for a returned None; `searches` are
\* the lists the search by last name may return
FindCall(full_name, nat, searches) ==
    LET key   == <<full_name, nat>>
        last  == [i \in 1..Len(norm_name(split_last_first(full_name)[1])) |->
                     UpperTok(norm_name(split_last_first(full_name)[1])[i])]
        first == norm_name(split_last_first(full_name)[2])
        Ret(hit, gets, v) ==
            [n |-> call.n + 1, fn |-> "find", args |-> <<full_name, nat>>,
             key |-> key, hit |-> hit,
             gets |-> gets, raised |-> FALSE, ret |-> Some(v)]
    IN
    /\ IF ~SWIMRANKINGS_LIB
       THEN /\ call' = Ret(FALSE, 0, None)
            /\ UNCHANGED <<SR_ID_CACHE, net>>
       ELSE IF Cached(SR_ID_CACHE, key)
       THEN /\ call' = Ret(TRUE, 0, SR_ID_CACHE[key])
            /\ UNCHANGED <<SR_ID_CACHE, net>>
       ELSE IF last = <<>>
       THEN /\ call' = Ret(FALSE, 0, None)
            /\ SR_ID_CACHE' = Store(SR_ID_CACHE, key, None)
            /\ UNCHANGED net
       ELSE \/ \* Athletes(name=last) raises
               /\ call' = Ret(FALSE, 1, None)
               /\ SR_ID_CACHE' = Store(SR_ID_CACHE, key, None)
               /\ net' = net + 1
            \/ \E athletes \in searches :
                  LET id == SrPick(athletes, first, nat) IN
                  /\ call' = Ret(FALSE, 1, id)
                  /\ SR_ID_CACHE' = Store(SR_ID_CACHE, key, id)
                  /\ net' = net + 1
    /\ UNCHANGED <<SB_YTD_CACHE, SWIMRANKINGS_LIB>>

\* a lookup of some athlete page for some reference date
ScrapePoolBests ==
    /\ call.n < MaxLookups
    /\ \E athlete_id \in SrAthleteIds, od \in RefDates :
          ScrapeCall(athlete_id, od, HttpRuns(SR_RETRIES), SrPages)
    /\ UNCHANGED <<aggVars, evVars, lcmVars, scanVars, probeVars, httpVars, mainVars, anVars>>

\* a search of some athlete name
FindAthleteId ==
    /\ call.n < MaxLookups
    /\ \E full_name \in FullNames, nat \in Nats :
          FindCall(full_name, nat, SeqsUpTo(SrAthletes, MaxSearchHits))
    /\ UNCHANGED <<aggVars, evVars, lcmVars, scanVars, probeVars, httpVars, mainVars, anVars>>

NextCache == ScrapePoolBests \/ FindAthleteId

SpecCache == InitCache /\ [][NextCache]_vars

\* ---------------------------------------------------------------------------
\* C14: cache idempotence: once a lookup has populated the cache for a key,
\* a further lookup for that key returns the value the populating lookup
\* returned and issues no network request, for swimrankings_scrape_pool_bests
\* (_SB_YTD_CACHE) and swimrankings_find_athlete_id (_SR_ID_CACHE) alike.
Lookup(fn) == call'.n = call.n + 1 /\ call'.fn = fn

CacheOf(fn) == IF fn = "scrape" THEN SB_YTD_CACHE ELSE SR_ID_CACHE

\* the lookup of this step meets a populated key: nothing is fetched, nothing
\* is written, the stored value is returned
ServedFromCache(cache) ==
    /\ net' = net
    /\ call'.gets = 0
    /\ ~call'.raised
    /\ call'.ret = Some(cache[call'.key])
    /\ UNCHANGED <<SR_ID_CACHE, SB_YTD_CACHE, mainVars, anVars>>

\* the lookup of this step populates the key: what it stores is what it returns
StoresWhatItReturns(cache, cacheAfter) ==
    (call'.key \notin DOMAIN cache /\ call'.key \in DOMAIN cacheAfter)
        => call'.ret = Some(cacheAfter[call'.key])

C14_CacheIdempotence ==
    [][/\ Lookup("scrape") =>
             /\ call'.key \in DOMAIN SB_YTD_CACHE => ServedFromCache(SB_YTD_CACHE)
             /\ StoresWhatItReturns(SB_YTD_CACHE, SB_YTD_CACHE')
       /\ Lookup("find") =>
             /\ call'.key \in DOMAIN SR_ID_CACHE => ServedFromCache(SR_ID_CACHE)
             /\ StoresWhatItReturns(SR_ID_CACHE, SR_ID_CACHE')]_vars

C14_Witness ==
    /\ call.n >= 2
    /\ call.fn = "scrape"
    /\ call.hit
    /\ net > 0
    /\ call.ret = Some(SB_YTD_CACHE[call.key])
    /\ ~IsNone(call.ret[1]["400 Free"].pb)

\* ---------------------------------------------------------------------------
\* C15 (as stated): the performance cache is keyed by the athlete alone: once
\* something is cached for an athlete, a lookup for that athlete, for the
\* same or for another reference date, issues no network request.
CachedAthlete(athlete_id) == \E k \in DOMAIN SB_YTD_CACHE : k[1] = athlete_id

MaxRaces == 2

\* the number of athletes of one run, over all its races, that are explored
MaxAthletes == 2

\* the i-th discipline of the "OW" sport of the competition: a 5 km event
\* first, 10 km events after it
Discipline(i) ==
    [DisciplineName |-> IF i = 1 THEN <<"Men", "5km">>
                        ELSE IF i % 2 = 0 THEN <<"Men", "10km">>
                        ELSE <<"Women", "10km">>,
     Gender |-> IF i = 1 \/ i % 2 = 0 THEN "M" ELSE "W",
     Id |-> i]

\* the competition documents of a one-day competition: From / To present or
\* missing, and the first disciplines of the list
Metas ==
    {[From |-> f, To |-> t, DisciplineList |-> [i \in 1..k |-> Discipline(i)]] :
        f \in {<<>>, <<"2025-10-01">>},
        t \in {<<>>, <<"soon">>, <<"2025-10-01", "T10:00:00", "Z">>},
        k \in 0..(MaxRaces + 1)}

\* fetch_ow_events, for the disciplines of the sport with Code "OW"
fetch_ow_events(meta) ==
    [i \in 1..Len(meta.DisciplineList) |->
        [name   |-> meta.DisciplineList[i].DisciplineName,
         gender |-> meta.DisciplineList[i].Gender,
         id     |-> meta.DisciplineList[i].Id]]

\* pick_10km_events with AUTO_PICK_10KM: "10" in nm and "km" in nm
pick_10km_events(ow_events) ==
    SelectSeq(ow_events, LAMBDA e : In("10", Lower(e.name)) /\ In("km", Lower(e.name)))

\* the entries of heats[0]["Results"]: a finisher, and an athlete who did
\* not finish and so has neither a time nor a rank
RawResults ==
    {[PersonId |-> "1001", FirstName |-> "John", LastName |-> "Doe.", NAT |-> "USA",
      Time |-> "1:52:10.5", Rank |-> "1"],
     [PersonId |-> "1002", FirstName |-> "Ann", LastName |-> "Roe", NAT |-> "ITA",
      Time |-> "", Rank |-> ""]}

\* f"{ln}, {fn}".strip(", ").strip()
FullName(ln, fn) ==
    IF ln = "" /\ fn = "" THEN <<>>
    ELSE IF ln = "" THEN <<fn>>
    ELSE IF fn = "" THEN <<ln>>
    ELSE <<ln, ", ", fn>>

\* the list fetch_event_results builds from the entries
EventAthletes(results) ==
    [i \in 1..Len(results) |->
        [wa_id     |-> results[i].PersonId,
         full_name |-> FullName(results[i].LastName, results[i].FirstName),
         nat       |-> results[i].NAT,
         ow_time   |-> results[i].Time,
         ow_rank   |-> results[i].Rank]]

\* what fetch_wa_profile comes to for an athlete with an id: every candidate
\* failed, or a candidate returned the profile
ProfileOutcomes ==
    {[failed |-> TRUE, result |-> NoResult],
     [failed |-> FALSE, result |-> ProfileResult(ProfileBody)]}

\* what fetch_wa_pool_best_attempt comes to for an athlete with an id
PoolOutcomes(od) ==
    {[failed |-> TRUE, result |-> NoResult],
     [failed |-> FALSE, result |-> PoolResult(JList(<<JDict(GoodNodePairs)>>), od)]}

\* what SwimRankings answers during a run: the search finds nobody or the
\* one athlete, the page comes at the first GET or not at all, and it holds
\* the one swim
MainSearches == {<<>>, <<SrJohnUsa>>}

MainHttpRuns == {r \in HttpRuns(SR_RETRIES) : r.ok <=> r.gets = 1}

MainPages == {SrPageWithRow}

\* wa_pool.get(pool_event, {}) and the .get of its fields
WaEv(wa_pool, pool_event) ==
    IF IsNone(wa_pool) THEN [pb |-> None, sb |-> None] ELSE Val(wa_pool)[pool_event]

\* a variant that writes the first pool event into every row
Row_FirstEvent(r, pool_event) ==
    LET a == r.athletes[r.ai] IN
    [OW_Event |-> r.picked[r.ev].name, OW_EventGender |-> r.picked[r.ev].gender,
     OW_Date |-> isoformat(r.ow_date),
     WA_ID |-> a.wa_id, Athlete |-> a.full_name, NAT |-> a.nat,
     Sex |-> Or(Or(Get(r.profile, "Gender"), Get(r.profile, "Sex")),
                JStr(<<r.picked[r.ev].gender>>)),
     Birth |-> Or(Or(Get(r.profile, "BirthDate"), Get(r.profile, "DateOfBirth")),
                  Get(r.profile, "BirthYear")),
     OW_Rank |-> a.ow_rank, OW_Time |-> a.ow_time,
     PoolEvent |-> POOL_EVENTS[1],
     WA_SB_YTD |-> WaEv(r.wa_pool, pool_event).sb,
     WA_PB_Upto |-> WaEv(r.wa_pool, pool_event).pb,
     SR_ID |-> r.sr_id,
     SR_SB_YTD |-> r.sr_pool[pool_event].sb,
     SR_PB_Upto |-> r.sr_pool[pool_event].pb]

\* the dict appended to `rows` for one pool event of the current athlete
Row(r, pool_event) ==
    LET a == r.athletes[r.ai] IN
    [OW_Event |-> r.picked[r.ev].name, OW_EventGender |-> r.picked[r.ev].gender,
     OW_Date |-> isoformat(r.ow_date),
     WA_ID |-> a.wa_id, Athlete |-> a.full_name, NAT |-> a.nat,
     Sex |-> Or(Or(Get(r.profile, "Gender"), Get(r.profile, "Sex")),
                JStr(<<r.picked[r.ev].gender>>)),
     Birth |-> Or(Or(Get(r.profile, "BirthDate"), Get(r.profile, "DateOfBirth")),
                  Get(r.profile, "BirthYear")),
     OW_Rank |-> a.ow_rank, OW_Time |-> a.ow_time,
     PoolEvent |-> pool_event,
     WA_SB_YTD |-> WaEv(r.wa_pool, pool_event).sb,
     WA_PB_Upto |-> WaEv(r.wa_pool, pool_event).pb,
     SR_ID |-> r.sr_id,
     SR_SB_YTD |-> r.sr_pool[pool_event].sb,
     SR_PB_Upto |-> r.sr_pool[pool_event].pb]

\* a variant that appends nothing for an athlete one of whose fetches failed
RowsOf_SkipFailed(r) ==
    IF r.failures # {} THEN <<>>
    ELSE [i \in 1..Len(POOL_EVENTS) |-> Row(r, POOL_EVENTS[i])]

\* `for pool_event in POOL_EVENTS: rows.append({...})`
RowsOf(r) == [i \in 1..Len(POOL_EVENTS) |-> Row(r, POOL_EVENTS[i])]

\* a variant without the try around the scrape: its exception leaves main
AfterScrape_Propagate(raised) == IF raised THEN "crashed" ELSE "emit"

\* `except Exception as e: lg.warning(...)`: the scrape's exception is logged
\* and the athlete goes on with the empty sr_pool
AfterScrape(raised) == "emit"

\* a variant that falls back on a fixed date when neither date parsed
RefDate_Default(comp_from, comp_to) ==
    IF ~IsNone(comp_to) THEN comp_to
    ELSE IF ~IsNone(comp_from) THEN comp_from
    ELSE Some(Date(2025, 10, 1))

\* ow_date = comp_to or comp_from
RefDate(comp_from, comp_to) == IF ~IsNone(comp_to) THEN comp_to ELSE comp_from

\* the locals of the athlete loop before an athlete is taken up
NoAthlete ==
    [profile |-> JDict(<<>>), wa_pool |-> None, sr_id |-> None, sr_pool |-> EmptyBests,
     fetches |-> 0, failures |-> {}]

InitMain ==
    /\ run = [pc |-> "start", error |-> "", dated |-> FALSE, in_flight |-> 0,
              ow_date |-> Date(0, 0, 0), picked |-> <<>>,
              ev |-> 0, athletes |-> <<>>, ai |-> 0, started |-> 0,
              profile |-> NoAthlete.profile, wa_pool |-> NoAthlete.wa_pool,
              sr_id |-> NoAthlete.sr_id, sr_pool |-> NoAthlete.sr_pool,
              fetches |-> NoAthlete.fetches, failures |-> NoAthlete.failures]
    /\ main_rows = <<>>
    /\ tasks = <<>>
    /\ xlsx = None
    /\ SR_ID_CACHE = <<>>
    /\ SB_YTD_CACHE = <<>>
    /\ SWIMRANKINGS_LIB \in BOOLEAN
    /\ net = 0
    /\ call = [n |-> 0]
    /\ AggIdle /\ EvIdle /\ LcmIdle /\ ScanIdle /\ ProbeIdle /\ HttpIdle /\ AnIdle

\* main up to the race loop: the competition document, the picked events,
\* the reference date
MainStart ==
    /\ run.pc = "start"
    /\ \/ \* http_get_json of fetch_competition_meta raises
          run' = [run EXCEPT !.pc = "crashed", !.error = "fetch_competition_meta"]
       \/ \E meta \in Metas :
             LET comp_from == parse_iso_date(meta.From)
                 comp_to   == parse_iso_date(meta.To)
                 picked    == pick_10km_events(fetch_ow_events(meta))
                 od        == RefDate(comp_from, comp_to)
                 dated     == ~IsNone(comp_from) \/ ~IsNone(comp_to)
             IN  run' = IF picked = <<>>
                        THEN [run EXCEPT !.pc = "returned", !.error = "No 10km OW events found."]
                        ELSE IF IsNone(od)
                        THEN [run EXCEPT !.pc = "returned", !.picked = picked,
                                         !.dated = dated,
                                         !.error = "Cannot determine OW date"]
                        ELSE [run EXCEPT !.pc = "race", !.picked = picked,
                                         !.dated = dated,
                                         !.ow_date = Val(od), !.ev = 1]
    /\ UNCHANGED <<main_rows, tasks, xlsx>>
    /\ UNCHANGED <<aggVars, evVars, lcmVars, scanVars, probeVars, httpVars, cacheVars, anVars>>

\* `athletes = fetch_event_results(ev_id)` for the next picked event
FetchEventResults ==
    /\ run.pc = "race"
    /\ run.ev <= Len(run.picked)
    /\ \/ \* http_get_json raises after its retries; nothing catches it
          run' = [run EXCEPT !.pc = "crashed", !.error = "fetch_event_results"]
       \/ \E results \in SeqsUpTo(RawResults, MaxAthletes - run.started) :
             run' = [run EXCEPT !.pc = "athlete", !.athletes = EventAthletes(results),
                                !.ai = 1, !.started = @ + Len(results)]
    /\ UNCHANGED <<main_rows, tasks, xlsx>>
    /\ UNCHANGED <<aggVars, evVars, lcmVars, scanVars, probeVars, httpVars, cacheVars, anVars>>

\* whether the statement the athlete loop stands at calls out: the two World
\* Aquatics fetches return {} at once without an id, the SwimRankings
\* lookup is always called, the scrape only `if sr_id`
Calls(r) ==
    CASE r.pc = "athlete" -> r.ai <= Len(r.athletes) /\ r.athletes[r.ai].wa_id # ""
      [] r.pc = "wa_pool" -> r.athletes[r.ai].wa_id # ""
      [] r.pc = "sr_id"   -> TRUE
      [] r.pc = "scrape"  -> ~IsNone(r.sr_id) /\ Val(r.sr_id) # 0
      [] OTHER            -> FALSE

\* a variant that issues the next call while earlier ones are outstanding
MayIssue_Async(in_flight) == in_flight < 3

\* the loop body is straight-line code in one thread: a call is made only
\* when no earlier call is outstanding
MayIssue(in_flight) == in_flight = 0

\* the call of the fetch the loop stands at has been made and has not returned
IssueFetch ==
    /\ Calls(run)
    /\ MayIssue(run.in_flight)
    /\ run' = [run EXCEPT !.in_flight = @ + 1]
    /\ UNCHANGED <<main_rows, tasks, xlsx>>
    /\ UNCHANGED <<aggVars, evVars, lcmVars, scanVars, probeVars, httpVars, cacheVars, anVars>>

\* the call the loop stands at returns (or there was none to make)
Returned(r, called) == [r EXCEPT !.in_flight = IF called THEN @ - 1 ELSE @]

\* `profile = fetch_wa_profile(wa_id)` for the next athlete of the event
FetchProfile ==
    /\ run.pc = "athlete"
    /\ Calls(run) => run.in_flight > 0
    /\ run.ai <= Len(run.athletes)
    /\ IF run.athletes[run.ai].wa_id = ""
       THEN run' = Returned([run EXCEPT !.pc = "wa_pool", !.profile = NoResult.profile], Calls(run))
       ELSE \E o \in ProfileOutcomes :
               run' = Returned([run EXCEPT !.pc = "wa_pool", !.profile = o.result.profile,
                                  !.fetches = @ + 1,
                                  !.failures = IF o.failed THEN @ \cup {"profile"} ELSE @], Calls(run))
    /\ UNCHANGED <<main_rows, tasks, xlsx>>
    /\ UNCHANGED <<aggVars, evVars, lcmVars, scanVars, probeVars, httpVars, cacheVars, anVars>>

\* `wa_pool = fetch_wa_pool_best_attempt(wa_id, ow_date)`
FetchWaPool ==
    /\ run.pc = "wa_pool"
    /\ Calls(run) => run.in_flight > 0
    /\ IF run.athletes[run.ai].wa_id = ""
       THEN run' = Returned([run EXCEPT !.pc = "sr_id", !.wa_pool = NoResult.mapped], Calls(run))
       ELSE \E o \in PoolOutcomes(run.ow_date) :
               run' = Returned([run EXCEPT !.pc = "sr_id", !.wa_pool = o.result.mapped,
                                  !.fetches = @ + 1,
                                  !.failures = IF o.failed THEN @ \cup {"wa_pool"} ELSE @], Calls(run))
    /\ UNCHANGED <<main_rows, tasks, xlsx>>
    /\ UNCHANGED <<aggVars, evVars, lcmVars, scanVars, probeVars, httpVars, cacheVars, anVars>>

\* `sr_id = swimrankings_find_athlete_id(full_name, nat)`
FindSrId ==
    /\ run.pc = "sr_id"
    /\ Calls(run) => run.in_flight > 0
    /\ FindCall(run.athletes[run.ai].full_name, run.athletes[run.ai].nat, MainSearches)
    /\ run' = Returned([run EXCEPT !.pc = "scrape", !.sr_id = Val(call'.ret),
                          !.fetches = IF call'.gets > 0 THEN @ + 1 ELSE @], Calls(run))
    /\ UNCHANGED <<main_rows, tasks, xlsx>>
    /\ UNCHANGED <<aggVars, evVars, lcmVars, scanVars, probeVars, httpVars, anVars>>

\* `if sr_id: try: sr_pool = swimrankings_scrape_pool_bests(sr_id, ow_date)`
ScrapeSrPool ==
    /\ run.pc = "scrape"
    /\ Calls(run) => run.in_flight > 0
    /\ IF ~IsNone(run.sr_id) /\ Val(run.sr_id) # 0
       THEN /\ ScrapeCall(Val(run.sr_id), run.ow_date, MainHttpRuns, MainPages)
            /\ run' = Returned([run EXCEPT
                         !.pc = AfterScrape(call'.raised),
                         !.error = IF AfterScrape(call'.raised) = "crashed"
                                   THEN "swimrankings_scrape_pool_bests" ELSE @,
                         !.sr_pool = IF call'.raised THEN @ ELSE Val(call'.ret),
                         !.fetches = IF call'.gets > 0 THEN @ + 1 ELSE @,
                         !.failures = IF call'.raised THEN @ \cup {"scrape"} ELSE @], Calls(run))
       ELSE /\ run' = Returned([run EXCEPT !.pc = "emit"], Calls(run))
            /\ UNCHANGED cacheVars
    /\ UNCHANGED <<main_rows, tasks, xlsx>>
    /\ UNCHANGED <<aggVars, evVars, lcmVars, scanVars, probeVars, httpVars, anVars>>

\* the loop over POOL_EVENTS appends the athlete's rows; the next athlete
EmitRows ==
    /\ run.pc = "emit"
    /\ main_rows' = main_rows \o RowsOf(run)
    /\ tasks' = Append(tasks, [ev |-> run.ev, ai |-> run.ai, of |-> Len(run.athletes),
                               a |-> run.athletes[run.ai],
                               fetches |-> run.fetches, failures |-> run.failures,
                               pending |-> run.in_flight,
                               wa_pool |-> run.wa_pool, sr_pool |-> run.sr_pool,
                               from |-> Len(main_rows) + 1, n |-> Len(RowsOf(run))])
    /\ run' = [run EXCEPT !.pc = "athlete", !.ai = @ + 1,
                          !.profile = NoAthlete.profile, !.wa_pool = NoAthlete.wa_pool,
                          !.sr_id = NoAthlete.sr_id, !.sr_pool = NoAthlete.sr_pool,
                          !.fetches = NoAthlete.fetches, !.failures = NoAthlete.failures]
    /\ UNCHANGED xlsx
    /\ UNCHANGED <<aggVars, evVars, lcmVars, scanVars, probeVars, httpVars, cacheVars, anVars>>

\* the athletes of the event are exhausted: the next picked event
NextRace ==
    /\ run.pc = "athlete"
    /\ run.ai > Len(run.athletes)
    /\ run' = [run EXCEPT !.pc = "race", !.ev = @ + 1, !.athletes = <<>>, !.ai = 0]
    /\ UNCHANGED <<main_rows, tasks, xlsx>>
    /\ UNCHANGED <<aggVars, evVars, lcmVars, scanVars, probeVars, httpVars, cacheVars, anVars>>

\* after the race loop: `if df.empty: return`, else df.to_excel(out_path)
Save ==
    /\ run.pc = "race"
    /\ run.ev > Len(run.picked)
    /\ IF main_rows = <<>>
       THEN /\ run' = [run EXCEPT !.pc = "returned", !.error = "No data to save."]
            /\ UNCHANGED xlsx
       ELSE /\ run' = [run EXCEPT !.pc = "returned"]
            /\ xlsx' = Some(main_rows)
    /\ UNCHANGED <<main_rows, tasks>>
    /\ UNCHANGED <<aggVars, evVars, lcmVars, scanVars, probeVars, httpVars, cacheVars, anVars>>

NextMain ==
    \/ MainStart \/ FetchEventResults \/ IssueFetch
    \/ FetchProfile \/ FetchWaPool \/ FindSrId
    \/ ScrapeSrPool \/ EmitRows \/ NextRace \/ Save

SpecMain == InitMain /\ [][NextMain]_vars

\* the tasks of the ev-th picked event, and the rows a task appended
RaceTasks(ev) == {k \in 1..Len(tasks) : tasks[k].ev = ev}

TaskRows(t) == SubSeq(main_rows, t.from, t.from + t.n - 1)

\* the race loop is past the ev-th picked event
RaceDone(ev) == run.ev > ev

InAthleteBody == run.pc \in {"wa_pool", "sr_id", "scrape", "emit"}

Terminal == run.pc \in {"returned", "crashed"}

\* ---------------------------------------------------------------------------
\* C16: partial-failure tolerance: a failed fetch or scrape of one athlete
\* never aborts the race: the run does not crash on it, every athlete of the
\* race before and after the failed one still gets its complete rows, and a
\* race that is over has one task per athlete of its result list.
C16_AthleteFailureDoesNotAbortRace ==
    /\ run.pc = "crashed" => run.error \in {"fetch_competition_meta", "fetch_event_results"}
    /\ InAthleteBody => Cardinality(RaceTasks(run.ev)) = run.ai - 1
    /\ \A k \in 1..Len(tasks) :
          /\ RaceDone(tasks[k].ev) => Cardinality(RaceTasks(tasks[k].ev)) = tasks[k].of
          /\ tasks[k].failures = {} =>
                /\ tasks[k].n = Len(POOL_EVENTS)
                /\ \A i \in 1..tasks[k].n :
                      TaskRows(tasks[k])[i].PoolEvent = POOL_EVENTS[i]

C16_Witness ==
    /\ RaceDone(1)
    /\ Len(tasks) = 2
    /\ tasks[1].ev = 1 /\ tasks[2].ev = 1
    /\ "scrape" \in tasks[1].failures
    /\ tasks[2].failures = {}
    /\ tasks[2].n = Len(POOL_EVENTS)
    /\ ~IsNone(TaskRows(tasks[2])[1].WA_PB_Upto)

\* ---------------------------------------------------------------------------
\* C17: no failure aborts the whole run: when the result list of one race
\* cannot be fetched, the other races are still processed and the rows
\* already produced are still written: a run that has picked its races and
\* its date does not end before its last race, and it ends with every
\* produced row in the output.
C17_RaceFailureDoesNotAbortRun ==
    (Terminal /\ run.picked # <<>> /\ run.ow_date # Date(0, 0, 0)) =>
        /\ run.ev >= Len(run.picked)
        /\ main_rows # <<>> => xlsx = Some(main_rows)

\* ---------------------------------------------------------------------------
\* C18 (as stated): an athlete whose fetching failed ends with zero output
\* rows: no row of that athlete is in the output.
C18_FailedAthleteHasNoRows ==
    \A k \in 1..Len(tasks) : tasks[k].failures # {} => tasks[k].n = 0

\* C18 (amended): an athlete whose fetching failed still ends with one row
\* per target pool event; the failure shows as null fields: the WA bests are
\* null when the WA pool fetch failed, the SwimRankings bests are null when
\* the scrape raised.
AllNull(t, fields) ==
    \A i \in 1..t.n : \A f \in fields : IsNone(TaskRows(t)[i][f])

C18_FailedAthleteHasNullRows ==
    \A k \in 1..Len(tasks) :
        tasks[k].failures # {} =>
            /\ tasks[k].n = Len(POOL_EVENTS)
            /\ "wa_pool" \in tasks[k].failures =>
                  AllNull(tasks[k], {"WA_SB_YTD", "WA_PB_Upto"})
            /\ "scrape" \in tasks[k].failures =>
                  AllNull(tasks[k], {"SR_SB_YTD", "SR_PB_Upto"})

C18_Witness ==
    /\ run.pc = "returned"
    /\ xlsx = Some(main_rows)
    /\ Len(tasks) = 1
    /\ tasks[1].failures = {"profile", "wa_pool", "scrape"}
    /\ Len(main_rows) = Len(POOL_EVENTS)

\* ---------------------------------------------------------------------------
\* C19: an athlete without a rank is skipped: no fetch is issued for that
\* athlete and no row of that athlete is produced.
NoRank(a) == a.ow_rank = ""

C19_NoRankSkipped ==
    /\ (InAthleteBody /\ NoRank(run.athletes[run.ai])) => run.fetches = 0
    /\ \A k \in 1..Len(tasks) :
          NoRank(tasks[k].a) => tasks[k].fetches = 0 /\ tasks[k].n = 0
    /\ \A i \in 1..Len(main_rows) : main_rows[i].OW_Rank # ""

\* ---------------------------------------------------------------------------
\* C20: every processed athlete has exactly one row per target pool event
\* (400, 800, 1500 Free, in this order), carrying the athlete's identity and
\* race result unchanged and the PB / SB of that event, each null exactly
\* when the source has none; the rows of a race number its processed
\* athletes times the number of target pool events.
RowOfTask(t, i) == TaskRows(t)[i]

C20_OneRowPerPoolEvent ==
    /\ Len(main_rows) = Len(tasks) * Len(POOL_EVENTS)
    /\ \A k \in 1..Len(tasks) :
          LET t == tasks[k] IN
          /\ t.from = (k - 1) * Len(POOL_EVENTS) + 1
          /\ t.n = Len(POOL_EVENTS)
          /\ \A i \in 1..t.n :
                LET row == RowOfTask(t, i) IN
                /\ row.PoolEvent = POOL_EVENTS[i]
                /\ row.WA_ID = t.a.wa_id
                /\ row.Athlete = t.a.full_name
                /\ row.NAT = t.a.nat
                /\ row.OW_Rank = t.a.ow_rank
                /\ row.OW_Time = t.a.ow_time
                /\ row.WA_PB_Upto = WaEv(t.wa_pool, POOL_EVENTS[i]).pb
                /\ row.WA_SB_YTD = WaEv(t.wa_pool, POOL_EVENTS[i]).sb
                /\ row.SR_PB_Upto = t.sr_pool[POOL_EVENTS[i]].pb
                /\ row.SR_SB_YTD = t.sr_pool[POOL_EVENTS[i]].sb
    /\ \A ev \in 1..Len(run.picked) :
          LET of_race == RaceTasks(ev) IN
          Cardinality(UNION {tasks[k].from..(tasks[k].from + tasks[k].n - 1) : k \in of_race})
             = Cardinality(of_race) * Len(POOL_EVENTS)

C20_Witness ==
    /\ run.pc = "returned"
    /\ Len(tasks) = 2
    /\ xlsx = Some(main_rows)
    /\ Len(main_rows) = 6
    /\ ~IsNone(main_rows[1].WA_PB_Upto)
    /\ IsNone(main_rows[2].WA_PB_Upto)
    /\ ~IsNone(main_rows[1].SR_PB_Upto)
    /\ main_rows[4].OW_Rank = ""

\* ---------------------------------------------------------------------------
\* C21: when neither From nor To of the competition gives a date, the races
\* picked are not analysed: the condition is logged, no result list and no
\* athlete is fetched, no row is produced and nothing is written; the run
\* ends in a return, not in an exception.  `dated` records whether one of
\* the two dates parsed.
NoRefDate == run.pc # "start" /\ run.picked # <<>> /\ ~run.dated

RECURSIVE ContainerPaths(_, _)
ContainerPaths(x, path) ==
    IF x.t \in {"dict", "list"}
    THEN {path} \cup UNION {ContainerPaths(x.kv[i][2], Append(path, i)) : i \in 1..Len(x.kv)}
    ELSE {}

\* how many levels of calls of visit the tree x takes, scalars included
RECURSIVE Levels(_)
Levels(x) ==
    IF x.kv = <<>> THEN 1
    ELSE LET below == {Levels(x.kv[i][2]) : i \in 1..Len(x.kv)}
         IN  1 + CHOOSE m \in below : \A k \in below : k <= m

VisitsOf(p) == Cardinality({i \in 1..Len(visited) : visited[i] = p})

ScanEnded == scanPc \in {"done", "raised"}

\* C23: the scan of a finite tree ends by returning, never by exhausting
\* the recursion the interpreter allows; no dict or list is visited twice,
\* and when the scan has ended every dict and list of the tree, the
\* children of accepted nodes included, has been visited exactly once.
C23_EveryNodeOnceWithinDepth ==
    /\ scanPc # "raised"
    /\ \A p \in ContainerPaths(js, <<>>) : VisitsOf(p) <= 1
    /\ ScanEnded => \A p \in ContainerPaths(js, <<>>) : VisitsOf(p) = 1

\* what the scan does keep: a tree within the interpreter's limit is
\* scanned to the end with every dict and list visited exactly once, and a
\* deeper one ends in RecursionError
ScanCompleteUnlessTooDeep ==
    /\ \A p \in ContainerPaths(js, <<>>) : VisitsOf(p) <= 1
    /\ scanPc = "raised" <=> (ScanEnded /\ Levels(js) > RecursionLimit)
    /\ scanPc = "done" => \A p \in ContainerPaths(js, <<>>) : VisitsOf(p) = 1

\* an accepted node's children were visited too
ScanVisitedChildOfAccepted ==
    /\ scanPc = "done"
    /\ js = JDict(GoodNodePairs \o << <<"Splits", JList(<<JDict(GoodNodePairs)>>)>> >>)
    /\ Len(scan_rows) = 2
    /\ Len(visited) = 3

(***************************************************************************)
(* analyse_competition of ow_pool_analysis.py                              *)
(***************************************************************************)

\* the results an analysis reads from the pool events, all events together
MaxPoolResults == 3

\* the code point of a character of a time string
Ord(c) ==
    CASE c = "." -> 46
      [] c = "0" -> 48 [] c = "1" -> 49 [] c = "2" -> 50 [] c = "3" -> 51
      [] c = "4" -> 52 [] c = "5" -> 53 [] c = "6" -> 54 [] c = "7" -> 55
      [] c = "8" -> 56 [] c = "9" -> 57
      [] c = ":" -> 58

\* a < b on two str values, given as their characters: the first differing
\* character decides, a proper prefix is the smaller
RECURSIVE StrLess(_, _)
StrLess(a, b) ==
    IF b = <<>> THEN FALSE
    ELSE IF a = <<>> THEN TRUE
    ELSE IF Head(a) = Head(b) THEN StrLess(Tail(a), Tail(b))
    ELSE Ord(Head(a)) < Ord(Head(b))

\* athlete_key(first_name, last_name)
athlete_key(first_name, last_name) == <<Lower(Strip(first_name)), Lower(Strip(last_name))>>

\* the time kept for a label that already has one: `if time and (not
\* existing or time < existing)` replaces it
KeepTime(existing, time) ==
    IF time # <<>> /\ (existing = <<>> \/ StrLess(time, existing)) THEN time ELSE existing

\* the body of the loop over the results of a pool event, for one result
\* of an athlete of the open-water race
Recorded(apr, key, event_label, time) ==
    LET of_key  == IF key \in DOMAIN apr THEN apr[key] ELSE <<>>
        of_key2 == IF event_label \in DOMAIN of_key
                   THEN (event_label :> KeepTime(of_key[event_label], time)) @@ of_key
                   ELSE (event_label :> time) @@ of_key
    IN  (key :> of_key2) @@ apr

\* the freestyle pool events of the competition, as get_pool_freestyle_ids
\* lists them
PoolLabels == <<"Men 400m Freestyle", "Men 800m Freestyle">>

T_9_59  == <<"9", ":", "5", "9", ".", "0", "0">>
T_10_01 == <<"1", "0", ":", "0", "1", ".", "0", "0">>

AnTimes == {<<>>, T_9_59, T_10_01}

AnJohn == [FirstName |-> <<"John">>, LastName |-> <<"Doe.">>, NAT |-> "USA"]
AnJOHN == [FirstName |-> <<"JOHN", " ">>, LastName |-> <<"Doe.">>, NAT |-> "USA"]
AnAnn  == [FirstName |-> <<"Ann">>, LastName |-> <<"Roe">>, NAT |-> "ITA"]

\* the result lists of the 10 km events, one after the other
OwLists == {<<AnJohn>>, <<AnJohn, AnAnn>>, <<AnJOHN, AnJohn>>}

AnPoolResults ==
    {[FirstName |-> a.FirstName, LastName |-> a.LastName, Time |-> t] :
        a \in {AnJohn, AnAnn}, t \in AnTimes}

\* ow_athletes after the loop over the results of the 10 km events: the
\* first result of a key gives its entry
RECURSIVE OwAthletes(_, _)
OwAthletes(results, acc) ==
    IF results = <<>> THEN acc
    ELSE LET res == Head(results)
             key == athlete_key(res.FirstName, res.LastName)
         IN  OwAthletes(Tail(results),
                        IF key \in DOMAIN acc THEN acc
                        ELSE acc @@ (key :> [first_name |-> res.FirstName,
                                             last_name |-> res.LastName,
                                             country |-> res.NAT]))

\* the frame: one row per open-water athlete, one column per pool label
Frame(ow_athletes, apr) ==
    [key \in DOMAIN ow_athletes |->
        [ev \in {PoolLabels[i] : i \in 1..Len(PoolLabels)} |->
            IF key \in DOMAIN apr /\ ev \in DOMAIN apr[key] THEN Some(apr[key][ev]) ELSE None]]

InitAn ==
    /\ an = [pc |-> "start", ow_athletes |-> <<>>, athlete_pool_results |-> <<>>,
             ev |-> 0, results |-> <<>>, read |-> 0, seen |-> <<>>, frame |-> <<>>]
    /\ AggIdle /\ EvIdle /\ LcmIdle /\ ScanIdle /\ ProbeIdle /\ HttpIdle /\ CacheIdle /\ MainIdle

\* fetch_events, the two filters and the loop over the 10 km events; a
\* failed request raises out of the analysis
CollectOw ==
    /\ an.pc = "start"
    /\ \/ an' = [an EXCEPT !.pc = "crashed"]
       \/ \E results \in OwLists :
             an' = [an EXCEPT !.pc = "pool", !.ev = 1,
                              !.ow_athletes = OwAthletes(results, <<>>)]
    /\ UNCHANGED <<aggVars, evVars, lcmVars, scanVars, probeVars, httpVars, cacheVars, mainVars>>

\* `results = fetch_event_results(eid)` for the next pool event
FetchPoolEvent ==
    /\ an.pc = "pool"
    /\ an.ev <= Len(PoolLabels)
    /\ \/ an' = [an EXCEPT !.pc = "crashed"]
       \/ \E results \in SeqsUpTo(AnPoolResults, MaxPoolResults - an.read) :
             an' = [an EXCEPT !.pc = "result", !.results = results,
                              !.read = @ + Len(results)]
    /\ UNCHANGED <<aggVars, evVars, lcmVars, scanVars, probeVars, httpVars, cacheVars, mainVars>>

\* one result of the pool event
RecordPoolResult ==
    /\ an.pc = "result"
    /\ an.results # <<>>
    /\ LET res         == Head(an.results)
           key         == athlete_key(res.FirstName, res.LastName)
           event_label == PoolLabels[an.ev]
       IN  IF key \notin DOMAIN an.ow_athletes
           THEN an' = [an EXCEPT !.results = Tail(@)]
           ELSE an' = [an EXCEPT
                         !.results = Tail(@),
                         !.athlete_pool_results = Recorded(@, key, event_label, res.Time),
                         !.seen = Append(@, [key |-> key, label |-> event_label,
                                             time |-> res.Time])]
    /\ UNCHANGED <<aggVars, evVars, lcmVars, scanVars, probeVars, httpVars, cacheVars, mainVars>>

\* the results of the pool event are exhausted: the next pool event
NextPoolEvent ==
    /\ an.pc = "result"
    /\ an.results = <<>>
    /\ an' = [an EXCEPT !.pc = "pool", !.ev = @ + 1]
    /\ UNCHANGED <<aggVars, evVars, lcmVars, scanVars, probeVars, httpVars, cacheVars, mainVars>>

\* "Build final dataframe"
BuildFrame ==
    /\ an.pc = "pool"
    /\ an.ev > Len(PoolLabels)
    /\ an' = [an EXCEPT !.pc = "done",
                        !.frame = Frame(an.ow_athletes, an.athlete_pool_results)]
    /\ UNCHANGED <<aggVars, evVars, lcmVars, scanVars, probeVars, httpVars, cacheVars, mainVars>>

NextAn == CollectOw \/ FetchPoolEvent \/ RecordPoolResult \/ NextPoolEvent \/ BuildFrame

SpecAn == InitAn /\ [][NextAn]_vars

\* the digits s read as a number
RECURSIVE NumOf(_)
NumOf(s) ==
    IF s = <<>> THEN 0 ELSE NumOf(SubSeq(s, 1, Len(s) - 1)) * 10 + (Ord(s[Len(s)]) - 48)

\* the elapsed time a string m:ss.cc stands for, in hundredths of a second
Elapsed(t) ==
    LET c == CHOOSE i \in 1..Len(t) : t[i] = ":"
        d == CHOOSE i \in 1..Len(t) : t[i] = "."
    IN  (NumOf(SubSeq(t, 1, c - 1)) * 60 + NumOf(SubSeq(t, c + 1, d - 1))) * 100
        + NumOf(SubSeq(t, d + 1, Len(t)))

\* the non-empty times among the results seen of an athlete for a label
TimesOf(key, ev) ==
    {an.seen[i].time : i \in {j \in 1..Len(an.seen) :
        an.seen[j].key = key /\ an.seen[j].label = ev /\ an.seen[j].time # <<>>}}

\* C24: when the analysis has ended, for every athlete of the 10 km race
\* and every pool label the athlete has a non-empty time for, the time in
\* the frame is one of those times and none of them is a smaller elapsed
\* time, whatever the number of minute digits of the times.
C24_FastestTimeRecorded ==
    an.pc = "done" =>
        \A key \in DOMAIN an.ow_athletes :
            \A i \in 1..Len(PoolLabels) :
                LET ts == TimesOf(key, PoolLabels[i])
                    rec == an.frame[key][PoolLabels[i]]
                IN  ts # {} =>
                        /\ ~IsNone(rec)
                        /\ Val(rec) \in ts
                        /\ \A t \in ts : Elapsed(Val(rec)) <= Elapsed(t)

\* what the analysis does keep: the time in the frame is the least of the
\* athlete's non-empty times for the label in the order of str
LeastStringRecorded ==
    an.pc = "done" =>
        \A key \in DOMAIN an.ow_athletes :
            \A i \in 1..Len(PoolLabels) :
                LET ts == TimesOf(key, PoolLabels[i])
                    rec == an.frame[key][PoolLabels[i]]
                IN  ts # {} =>
                        /\ ~IsNone(rec)
                        /\ Val(rec) \in ts
                        /\ \A t \in ts : ~StrLess(t, Val(rec))

====
